---- MODULE Spec2Model ----
(***************************************************************************)
(* Model of the resource-resolution and instance-lifecycle core of the     *)
(* Karpenter provider for Apache CloudStack.                               *)
(*                                                                         *)
(*   - the selector resolution of the network, template and                *)
(*     service-offering providers (pure functions of the listed inventory  *)
(*     and the selector terms), specification SpecResolve;                 *)
(*   - the TTL cache with the double-checked lock that guards the List     *)
(*     operation of the zone, network, template and service-offering       *)
(*     providers, specification SpecCache;                                 *)
(*   - the Get / Delete operations of the instance provider over the       *)
(*     instance-by-ID cache, specification SpecInstance.                   *)
(***************************************************************************)
EXTENDS Integers, Sequences, FiniteSets, Bags, TLC

(***************************************************************************)
(* Bounds of the model.                                                    *)
(***************************************************************************)
MaxInv == 2        \* resources in a listed inventory
MaxTerms == 2      \* selector terms in one Resolve call
NumCallers == 2    \* goroutines calling List on one provider
MaxCalls == 3      \* List calls in one behaviour
MaxTicks == 1      \* clock advances in one behaviour
MaxStr == 2        \* characters in a zone name or an instance ID
MaxLate == 2       \* ticker periods a Create may run past its deadline

\* The ticker period and the timeout of Create's wait, in seconds.
TickerPeriod == 5
WaitTimeout == 300

\* defaultCacheTTL, in minutes: the expiration of every cache entry.
defaultCacheTTL == 15

(***************************************************************************)
(* Generic helpers.                                                        *)
(***************************************************************************)
Range(s) == {s[i] : i \in 1..Len(s)}

Min(S) == CHOOSE x \in S : \A y \in S : x <= y

BoundedSeq(S, n) == UNION {[1..k -> S] : k \in 0..n}

RECURSIVE Flatten(_)
Flatten(ss) ==
    IF Len(ss) = 0 THEN <<>>
    ELSE Flatten(SubSeq(ss, 1, Len(ss) - 1)) \o ss[Len(ss)]

(***************************************************************************)
(* Tags are maps from key to value.                                        *)
(***************************************************************************)
EmptyTags == [k \in {} |-> ""]
Tag1(k, v) == [x \in {k} |-> v]
Tag2(k1, v1, k2, v2) == [x \in {k1, k2} |-> IF x = k1 THEN v1 ELSE v2]

Zones == {"z1", "z2"}

\* The IDs the remote inventory gives to the resources it lists, by position
\* (IDs are unique within the inventory of one kind).
ResourceIDs == <<"r1", "r2", "r3", "r4">>

(***************************************************************************)
(* Inventories: what the backend "list all" call of a kind can return.     *)
(***************************************************************************)
NetworkVariants(id, zone) ==
    { [ID |-> id, Name |-> "nA", Zone |-> zone, State |-> "Implemented",
       Tags |-> Tag1("env", "prod")],
      [ID |-> id, Name |-> "nA", Zone |-> zone, State |-> "Setup", Tags |-> EmptyTags],
      [ID |-> id, Name |-> "nB", Zone |-> zone, State |-> "Allocated",
       Tags |-> Tag2("env", "dev", "team", "dev")],
      [ID |-> id, Name |-> "nB", Zone |-> zone, State |-> "Implemented",
       Tags |-> Tag1("env", "")] }

TemplateVariants(id, zone) ==
    { [ID |-> id, Name |-> "nA", Zone |-> zone, OSType |-> "os-1", OSTypeName |-> "ubuntu",
       Status |-> "Download Complete", IsReady |-> TRUE, Tags |-> Tag1("env", "prod")],
      [ID |-> id, Name |-> "nA", Zone |-> zone, OSType |-> "os-1", OSTypeName |-> "ubuntu",
       Status |-> "Downloading", IsReady |-> FALSE, Tags |-> EmptyTags],
      [ID |-> id, Name |-> "nB", Zone |-> zone, OSType |-> "os-2", OSTypeName |-> "centos",
       Status |-> "Download Complete", IsReady |-> FALSE,
       Tags |-> Tag2("env", "dev", "team", "dev")],
      [ID |-> id, Name |-> "nB", Zone |-> zone, OSType |-> "os-2", OSTypeName |-> "centos",
       Status |-> "Download Complete", IsReady |-> TRUE, Tags |-> Tag1("env", "")] }

\* Tags of a service offering are the resource tags the remote inventory holds
\* for it; the provider never fetches them.  Service offerings belong to no zone.
OfferingVariants(id) ==
    { [ID |-> id, Name |-> "nA", Tags |-> Tag1("env", "prod")],
      [ID |-> id, Name |-> "nA", Tags |-> EmptyTags],
      [ID |-> id, Name |-> "nB", Tags |-> Tag2("env", "dev", "team", "dev")] }

Variants(kind, id, zone) ==
    CASE kind = "network" -> NetworkVariants(id, zone)
      [] kind = "template" -> TemplateVariants(id, zone)
      [] kind = "offering" -> OfferingVariants(id)

Inventories(kind, zone, n) ==
    UNION { { f \in [1..k -> UNION {Variants(kind, ResourceIDs[i], zone) : i \in 1..k}] :
                \A i \in 1..k : f[i].ID = ResourceIDs[i] } : k \in 0..n }

(***************************************************************************)
(* Selector terms.  ID, Name and Tags may coexist in one term.             *)
(***************************************************************************)
SelectorTerms ==
    { [ID |-> "", Name |-> "", Tags |-> EmptyTags],
      [ID |-> "r1", Name |-> "", Tags |-> EmptyTags],
      [ID |-> "r2", Name |-> "nA", Tags |-> Tag1("env", "prod")],
      [ID |-> "r1", Name |-> "nB", Tags |-> EmptyTags],
      [ID |-> "", Name |-> "nB", Tags |-> EmptyTags],
      [ID |-> "", Name |-> "", Tags |-> Tag1("env", "*")],
      [ID |-> "", Name |-> "", Tags |-> Tag1("env", "prod")],
      [ID |-> "", Name |-> "", Tags |-> Tag2("env", "*", "team", "dev")] }

TemplateSelectorTerms ==
    { [ID |-> "", Name |-> "", Tags |-> EmptyTags, OSType |-> ""],
      [ID |-> "r2", Name |-> "nA", Tags |-> Tag1("env", "prod"), OSType |-> ""],
      [ID |-> "", Name |-> "nB", Tags |-> EmptyTags, OSType |-> ""],
      [ID |-> "", Name |-> "", Tags |-> Tag1("env", "*"), OSType |-> ""],
      [ID |-> "", Name |-> "", Tags |-> Tag2("env", "*", "team", "dev"), OSType |-> ""],
      [ID |-> "", Name |-> "", Tags |-> EmptyTags, OSType |-> "ubuntu"],
      [ID |-> "", Name |-> "", Tags |-> Tag1("env", "*"), OSType |-> "os-2"],
      [ID |-> "r1", Name |-> "nB", Tags |-> Tag1("env", "prod"), OSType |-> "centos"] }

TermsOf(kind) == IF kind = "template" THEN TemplateSelectorTerms ELSE SelectorTerms

(***************************************************************************)
(* matchesTags: every key of the selector must exist on the resource, with *)
(* an equal value unless the selector value is the wildcard.               *)
(***************************************************************************)
matchesTagsAnyKey(resourceTags, selectorTags) ==
    \E key \in DOMAIN selectorTags :
        /\ key \in DOMAIN resourceTags
        /\ (selectorTags[key] = "*" \/ resourceTags[key] = selectorTags[key])

matchesTags(resourceTags, selectorTags) ==
    \A key \in DOMAIN selectorTags :
        /\ key \in DOMAIN resourceTags
        /\ ~(selectorTags[key] # "*" /\ resourceTags[key] # selectorTags[key])

(***************************************************************************)
(* lo.Find: the first element that satisfies the predicate, as a sequence  *)
(* of length 0 (not found) or 1.                                           *)
(***************************************************************************)
FindByID(list, id) ==
    LET hits == {i \in 1..Len(list) : list[i].ID = id}
    IN IF hits = {} THEN <<>> ELSE <<list[Min(hits)]>>

FindByName(list, name) ==
    LET hits == {i \in 1..Len(list) : list[i].Name = name}
    IN IF hits = {} THEN <<>> ELSE <<list[Min(hits)]>>

(***************************************************************************)
(* lo.UniqBy on the ID: keeps the first occurrence of every ID.            *)
(***************************************************************************)
UniqByIDKeepAll(s) == s

RECURSIVE UniqByID(_)
UniqByID(s) ==
    IF Len(s) = 0 THEN <<>>
    ELSE LET init == UniqByID(SubSeq(s, 1, Len(s) - 1))
             last == s[Len(s)]
         IN IF \E i \in 1..Len(init) : init[i].ID = last.ID
            THEN init
            ELSE Append(init, last)

(***************************************************************************)
(* One iteration of the term loop of ResolveNetworks.                      *)
(***************************************************************************)
NetworkTermMatchesNameFirst(allNetworks, term) ==
    LET byID == IF term.ID # "" THEN FindByID(allNetworks, term.ID) ELSE <<>>
        byName == IF term.Name # "" THEN FindByName(allNetworks, term.Name) ELSE <<>>
    IN IF byName # <<>> THEN byName
       ELSE IF byID # <<>> THEN byID
       ELSE IF Cardinality(DOMAIN term.Tags) > 0
            THEN SelectSeq(allNetworks, LAMBDA n : matchesTags(n.Tags, term.Tags))
            ELSE <<>>

NetworkTermMatches(allNetworks, term) ==
    LET byID == IF term.ID # "" THEN FindByID(allNetworks, term.ID) ELSE <<>>
        byName == IF term.Name # "" THEN FindByName(allNetworks, term.Name) ELSE <<>>
    IN IF byID # <<>> THEN byID
       ELSE IF byName # <<>> THEN byName
       ELSE IF Cardinality(DOMAIN term.Tags) > 0
            THEN SelectSeq(allNetworks, LAMBDA n : matchesTags(n.Tags, term.Tags))
            ELSE <<>>

NetworkReadyAny(n) == TRUE

NetworkReady(n) == n.State = "Implemented" \/ n.State = "Setup"

(***************************************************************************)
(* One iteration of the term loop of ResolveTemplates.                     *)
(***************************************************************************)
TemplateTermMatchesNoTagGuard(allTemplates, term) ==
    LET byID == IF term.ID # "" THEN FindByID(allTemplates, term.ID) ELSE <<>>
        byName == IF term.Name # "" THEN FindByName(allTemplates, term.Name) ELSE <<>>
        templates ==
            IF term.OSType # ""
            THEN SelectSeq(allTemplates,
                           LAMBDA t : t.OSTypeName = term.OSType \/ t.OSType = term.OSType)
            ELSE allTemplates
    IN IF byID # <<>> THEN byID
       ELSE IF byName # <<>> THEN byName
       ELSE SelectSeq(templates, LAMBDA t : matchesTags(t.Tags, term.Tags))

TemplateTermMatches(allTemplates, term) ==
    LET byID == IF term.ID # "" THEN FindByID(allTemplates, term.ID) ELSE <<>>
        byName == IF term.Name # "" THEN FindByName(allTemplates, term.Name) ELSE <<>>
        templates ==
            IF term.OSType # ""
            THEN SelectSeq(allTemplates,
                           LAMBDA t : t.OSTypeName = term.OSType \/ t.OSType = term.OSType)
            ELSE allTemplates
    IN IF byID # <<>> THEN byID
       ELSE IF byName # <<>> THEN byName
       ELSE IF Cardinality(DOMAIN term.Tags) > 0
            THEN SelectSeq(templates, LAMBDA t : matchesTags(t.Tags, term.Tags))
            ELSE IF term.OSType # "" THEN templates
            ELSE <<>>

TemplateReady(t) == t.IsReady /\ t.Status = "Download Complete"

(***************************************************************************)
(* One iteration of the term loop of filterServiceOfferings: the Tags of   *)
(* the term are never consulted.                                           *)
(***************************************************************************)
OfferingTermMatches(offerings, term) ==
    LET byID == IF term.ID # "" THEN FindByID(offerings, term.ID) ELSE <<>>
        byName == IF term.Name # "" THEN FindByName(offerings, term.Name) ELSE <<>>
    IN IF byID # <<>> THEN byID
       ELSE IF byName # <<>> THEN byName
       ELSE <<>>

TermMatches(kind, all, term) ==
    CASE kind = "network" -> NetworkTermMatches(all, term)
      [] kind = "template" -> TemplateTermMatches(all, term)
      [] kind = "offering" -> OfferingTermMatches(all, term)

\* The selection of every term, in list order.
PerTerm(kind, all, terms) == [i \in 1..Len(terms) |-> TermMatches(kind, all, terms[i])]

\* The accumulated selection after "Remove duplicates".
Matched(kind, all, terms) == UniqByID(Flatten(PerTerm(kind, all, terms)))

(***************************************************************************)
(* Results: [ok, val, err, zone].                                          *)
(***************************************************************************)
Ok(v) == [ok |-> TRUE, val |-> v, err |-> "", zone |-> ""]
Err(e, z) == [ok |-> FALSE, val |-> <<>>, err |-> e, zone |-> z]

ResolveNetworks(listed, terms, zone) ==
    IF ~listed.ok THEN listed
    ELSE LET matchedNetworks == SelectSeq(Matched("network", listed.val, terms), NetworkReady)
         IN IF Len(matchedNetworks) = 0
            THEN Err("no networks matched the selector terms in zone", zone)
            ELSE Ok(matchedNetworks)

ResolveTemplates(listed, terms, zone) ==
    IF ~listed.ok THEN listed
    ELSE LET matchedTemplates == SelectSeq(Matched("template", listed.val, terms), TemplateReady)
         IN IF Len(matchedTemplates) = 0
            THEN Err("no templates matched the selector terms in zone", zone)
            ELSE Ok(matchedTemplates)

filterServiceOfferings(offerings, terms) == Matched("offering", offerings, terms)

convertToInstanceType(offering, zone) == [Name |-> offering.Name, Zone |-> zone]

\* instancetype List: resolveServiceOfferings, then the conversion.
InstanceTypeList(listed, terms, zone) ==
    IF ~listed.ok THEN listed
    ELSE LET serviceOfferings == filterServiceOfferings(listed.val, terms)
         IN Ok([i \in 1..Len(serviceOfferings) |->
                    convertToInstanceType(serviceOfferings[i], zone)])

(***************************************************************************)
(* The TTL cache (go-cache) behind every provider.  An entry is            *)
(* [set, val, exp]; Get finds it unless the clock is past its expiration.  *)
(***************************************************************************)
NoEntry == [set |-> FALSE, val |-> <<>>, exp |-> 0]

CacheFoundNoExpiry(c, key, t) == c[key].set

CacheFound(c, key, t) == c[key].set /\ ~(t > c[key].exp)

CacheSet(c, key, v, t) ==
    [c EXCEPT ![key] = [set |-> TRUE, val |-> v, exp |-> t + defaultCacheTTL]]

\* The providers whose List is guarded by a cache and a mutex.
Kinds == {"zone", "network", "template", "offering"}

\* The zone argument of a List call: the zone provider's List takes none.
ArgZones(kind) == IF kind = "zone" THEN {""} ELSE Zones

\* "zones", "networks-<zone>", "templates-<zone>", "service-offerings-<zone>".
CacheKey(kind, zone) ==
    CASE kind = "zone" -> <<"zones">>
      [] kind = "network" -> <<"networks", zone>>
      [] kind = "template" -> <<"templates", zone>>
      [] kind = "offering" -> <<"service-offerings", zone>>

CacheKeys(kind) == {CacheKey(kind, z) : z \in ArgZones(kind)}

(***************************************************************************)
(* The remote inventory, in one of two generations: what the backend       *)
(* answers to a list call of a kind, for a zone and a template filter.     *)
(* The template inventory has one generation: its lists vary with the      *)
(* filters that fail.                                                      *)
(***************************************************************************)
Generations(kind) == IF kind = "template" THEN {1} ELSE {1, 2}

TemplateFilters == <<"featured", "community", "self">>

Filters(kind) == IF kind = "template" THEN Range(TemplateFilters) ELSE {"all"}

RemoteNetwork(id, zone, g) ==
    IF id = "r1"
    THEN [ID |-> "r1", Name |-> "nA", Zone |-> zone, State |-> "Implemented",
          Tags |-> Tag1("env", "prod")]
    ELSE [ID |-> "r2", Name |-> "nB", Zone |-> zone, State |-> "Setup",
          Tags |-> Tag2("env", "dev", "team", "dev")]

RemoteTemplate(id, zone, g) ==
    IF id = "r1"
    THEN [ID |-> "r1", Name |-> "nA", Zone |-> zone, OSType |-> "os-1", OSTypeName |-> "ubuntu",
          Status |-> "Download Complete", IsReady |-> TRUE, Tags |-> Tag1("env", "prod")]
    ELSE [ID |-> "r2", Name |-> "nB", Zone |-> zone, OSType |-> "os-2", OSTypeName |-> "centos",
          Status |-> "Download Complete", IsReady |-> TRUE,
          Tags |-> Tag2("env", "dev", "team", "dev")]

RemoteZone(name, g) ==
    [ID |-> IF name = "z1" THEN "zid1" ELSE "zid2", Name |-> name,
     AllocationState |-> IF name = "z2" /\ g = 2 THEN "Disabled" ELSE "Enabled"]

BackendList(kind, zone, g, filter) ==
    CASE kind = "network" ->
            IF g = 1 THEN <<RemoteNetwork("r1", zone, g)>>
            ELSE <<RemoteNetwork("r1", zone, g), RemoteNetwork("r2", zone, g)>>
      [] kind = "template" ->
            IF filter = "featured" THEN <<RemoteTemplate("r1", zone, g)>>
            ELSE IF filter = "community" THEN <<>>
            ELSE <<RemoteTemplate("r1", zone, g), RemoteTemplate("r2", zone, g)>>
      [] kind = "offering" ->
            IF g = 1 THEN <<[ID |-> "r1", Name |-> "nA", Tags |-> Tag1("env", "prod")]>>
            ELSE <<[ID |-> "r1", Name |-> "nA", Tags |-> Tag1("env", "prod")],
                   [ID |-> "r2", Name |-> "nB", Tags |-> EmptyTags]>>
      [] kind = "zone" -> <<RemoteZone("z1", g), RemoteZone("z2", g)>>

\* The listed resources, each with the tags the backend has for it.
WithTagsOfBackend(list, tagErr) == list

\* getNetworkTags / getTemplateTags for every listed resource: a failed tag
\* lookup leaves the resource with an empty tag set.
WithTags(list, tagErr) ==
    [i \in 1..Len(list) |->
        IF list[i].ID \in tagErr THEN [list[i] EXCEPT !.Tags = EmptyTags] ELSE list[i]]

(***************************************************************************)
(* The fetch of List behind the double check, by provider.  zoneErr: the   *)
(* GetZoneID call fails; failed: the list calls (by filter) that fail;     *)
(* tagErr: the resources whose tag lookup fails.  The result says whether  *)
(* the list is stored in the cache.                                        *)
(***************************************************************************)
Fetched(result, stored) == [result |-> result, stored |-> stored]

ZoneFetch(zone, g, zoneErr, failed, tagErr) ==
    IF "all" \in failed
    THEN Fetched(Err("listing zones", ""), FALSE)
    ELSE Fetched(Ok(BackendList("zone", zone, g, "all")), TRUE)

NetworkFetch(zone, g, zoneErr, failed, tagErr) ==
    IF zoneErr
    THEN Fetched(Err("getting zone ID for", zone), FALSE)
    ELSE IF "all" \in failed
    THEN Fetched(Err("listing networks in zone", zone), FALSE)
    ELSE Fetched(Ok(WithTags(BackendList("network", zone, g, "all"), tagErr)), TRUE)

TemplateFetch(zone, g, zoneErr, failed, tagErr) ==
    IF zoneErr
    THEN Fetched(Err("getting zone ID for", zone), FALSE)
    ELSE LET perFilter ==
                 [i \in 1..Len(TemplateFilters) |->
                     IF TemplateFilters[i] \in failed
                     THEN <<>>
                     ELSE WithTags(BackendList("template", zone, g, TemplateFilters[i]), tagErr)]
         IN Fetched(Ok(UniqByID(Flatten(perFilter))), TRUE)

OfferingFetch(zone, g, zoneErr, failed, tagErr) ==
    IF "all" \in failed
    THEN Fetched(Err("listing service offerings", ""), FALSE)
    ELSE Fetched(Ok(BackendList("offering", zone, g, "all")), TRUE)

Fetch(kind, zone, g, zoneErr, failed, tagErr) ==
    CASE kind = "zone" -> ZoneFetch(zone, g, zoneErr, failed, tagErr)
      [] kind = "network" -> NetworkFetch(zone, g, zoneErr, failed, tagErr)
      [] kind = "template" -> TemplateFetch(zone, g, zoneErr, failed, tagErr)
      [] kind = "offering" -> OfferingFetch(zone, g, zoneErr, failed, tagErr)

\* The backend inputs of one fetch that the provider can tell apart.  Of the
\* three template list calls none fails, the first fails, or all fail.
FailedSets(kind) ==
    IF kind = "template"
    THEN {{}, {TemplateFilters[1]}, Range(TemplateFilters)}
    ELSE SUBSET Filters(kind)

ZoneErrs(kind) == IF kind \in {"network", "template"} THEN BOOLEAN ELSE {FALSE}
TagErrs(kind) == IF kind \in {"network", "template"} THEN SUBSET {"r1"} ELSE {{}}

\* How much of the backend's part of a fetch failed: nothing, some of the
\* list calls, or all there was to list (the zone lookup or every list call).
Failure(kind, zoneErr, failed) ==
    IF zoneErr \/ failed = Filters(kind) THEN "total"
    ELSE IF failed = {} THEN "none"
    ELSE "partial"

\* The double check after the lock is taken.
DoubleCheckSkipped(c, key, t) == FALSE

DoubleCheck(c, key, t) == CacheFound(c, key, t)

(***************************************************************************)
(* State.                                                                  *)
(***************************************************************************)
VARIABLES
    rPc,        \* "idle" | "start" | "done": position of the Resolve call
    rKind,      \* the resolver called
    rZone,      \* its zone argument
    rListed,    \* what its List call returned
    rTerms,     \* its selector terms
    rPerTerm,   \* the selection of every term
    rMatched,   \* the accumulated selection after deduplication
    rResult     \* what the call returned

resolveVars == <<rPc, rKind, rZone, rListed, rTerms, rPerTerm, rMatched, rResult>>

VARIABLES
    prov,       \* the provider whose List is called
    now,        \* the clock, in minutes
    ticks,      \* clock advances so far
    cache,      \* the provider's cache: key -> entry
    mu,         \* the provider's mutex: 0, or the caller that holds it
    pc,         \* per caller: "idle" | "lock" | "fetch"
    arg,        \* per caller: the zone argument of its call in progress
    ret,        \* the last return of List
    ncalls,     \* List calls so far
    log         \* the fetches that reached the backend: a bag of what each one did

cacheVars == <<prov, now, ticks, cache, mu, pc, arg, ret, ncalls, log>>

VARIABLES
    iRemote,    \* the ids of the virtual machines the backend has
    iCache,     \* the instance provider's cache: "instance-<id>" -> entry
    iLast       \* the last call of the instance provider and its outcome

instanceVars == <<iRemote, iCache, iLast>>

VARIABLES
    cPc,        \* Create: "idle" | "select" | "poll" | "tags" | "done"
    cReq,       \* its NodeClass and NodeClaim
    cElapsed,   \* seconds since waitForVMState started
    cTick,      \* a tick is buffered in ticker.C
    cCancelled, \* ctx.Done() is closed
    cVm,        \* the deployed virtual machine at the backend
    cCalls,     \* the kinds of backend calls Create has made
    cHist,      \* what happened during the call
    cOut        \* what Create returned

createVars == <<cPc, cReq, cElapsed, cTick, cCancelled, cVm, cCalls, cHist, cOut>>

VARIABLES
    opName,     \* the operation called on its own: "none" | "List" | ...
    opIn,       \* its arguments and what the backend will answer
    opDone,     \* whether it has returned
    opOut       \* what it returned

callVars == <<opName, opIn, opDone, opOut>>

VARIABLES
    job         \* a WaitForAsyncJob call: its position, clock, job and return

jobVars == <<job>>

vars == <<resolveVars, cacheVars, instanceVars, createVars, callVars, jobVars>>

Callers == 1..NumCallers

ListErr(kind, zone) ==
    CASE kind = "network" -> Err("listing networks in zone", zone)
      [] kind = "template" -> Err("getting zone ID for", zone)
      [] kind = "offering" -> Err("listing service offerings", "")

\* The subsystems at rest.
ResolveIdle ==
    /\ rPc = "idle"
    /\ rKind = "none"
    /\ rZone = ""
    /\ rListed = Ok(<<>>)
    /\ rTerms = <<>>
    /\ rPerTerm = <<>>
    /\ rMatched = <<>>
    /\ rResult = Ok(<<>>)

NoReturn == [key |-> <<>>, via |-> "none", fresh |-> TRUE, result |-> Ok(<<>>)]

InstanceIDs == {"i1", "i2"}

InstanceKey(id) == <<"instance", id>>

NoCall == [op |-> "none", id |-> "", absent |-> FALSE, transport |-> FALSE,
           cached |-> FALSE, outcome |-> "ok", got |-> "", destroys |-> <<>>]

InstanceIdle ==
    /\ iRemote = {}
    /\ iCache = <<>>
    /\ iLast = NoCall

NoRequest == [nodeClass |-> "", userTags |-> EmptyTags, nodeClaim |-> "", labels |-> EmptyTags]

NoHistory == [sawRunning |-> FALSE, cancelBlocked |-> FALSE, pollAfterCancel |-> FALSE,
              pollErr |-> FALSE, runningBy |-> "never", tagErr |-> FALSE, sent |-> EmptyTags,
              faults |-> {}, steps |-> <<>>, seen |-> {}]

NoOutcome == [ok |-> FALSE, err |-> "", instance |-> <<>>]

CreateIdle ==
    /\ cPc = "idle"
    /\ cReq = NoRequest
    /\ cElapsed = 0
    /\ cTick = FALSE
    /\ cCancelled = FALSE
    /\ cVm = "none"
    /\ cCalls = {}
    /\ cHist = NoHistory
    /\ cOut = NoOutcome

\* No WaitForAsyncJob call.  status: the Jobstatus at the backend; polled:
\* the statuses the polls were answered with.
NoJob ==
    [pc |-> "idle", timeout |-> 0, elapsed |-> 0, tick |-> FALSE, cancelled |-> FALSE,
     status |-> 0, jobresult |-> "", polled |-> <<>>, via |-> "", ok |-> FALSE,
     err |-> [msg |-> "", carried |-> ""], result |-> ""]

JobIdle == job = NoJob

CallIdle ==
    /\ opName = "none"
    /\ opIn = <<>>
    /\ opDone = FALSE
    /\ opOut = <<>>

CacheIdle ==
    /\ prov = "none"
    /\ now = 0
    /\ ticks = 0
    /\ cache = <<>>
    /\ mu = 0
    /\ pc = [c \in Callers |-> "idle"]
    /\ arg = [c \in Callers |-> ""]
    /\ ret = NoReturn
    /\ ncalls = 0
    /\ log = EmptyBag

InitResolve ==
    /\ CacheIdle
    /\ CallIdle
    /\ JobIdle
    /\ InstanceIdle
    /\ CreateIdle
    /\ rPc = "start"
    /\ rKind \in {"network", "template", "offering"}
    /\ rZone \in Zones
    /\ rListed \in {ListErr(rKind, rZone)} \cup {Ok(inv) : inv \in Inventories(rKind, rZone, MaxInv)}
    /\ rTerms \in BoundedSeq(TermsOf(rKind), MaxTerms)
    /\ rPerTerm = <<>>
    /\ rMatched = <<>>
    /\ rResult = Ok(<<>>)

Resolved(kind, result) ==
    /\ rPc' = "done"
    /\ rPerTerm' = IF rListed.ok THEN PerTerm(kind, rListed.val, rTerms) ELSE <<>>
    /\ rMatched' = IF rListed.ok THEN Matched(kind, rListed.val, rTerms) ELSE <<>>
    /\ rResult' = result
    /\ UNCHANGED <<rKind, rZone, rListed, rTerms>>

ResolveNetworksCall ==
    /\ rPc = "start"
    /\ rKind = "network"
    /\ Resolved("network", ResolveNetworks(rListed, rTerms, rZone))

ResolveTemplatesCall ==
    /\ rPc = "start"
    /\ rKind = "template"
    /\ Resolved("template", ResolveTemplates(rListed, rTerms, rZone))

InstanceTypeListCall ==
    /\ rPc = "start"
    /\ rKind = "offering"
    /\ Resolved("offering", InstanceTypeList(rListed, rTerms, rZone))

NextResolve ==
    /\ \/ ResolveNetworksCall
       \/ ResolveTemplatesCall
       \/ InstanceTypeListCall
    /\ UNCHANGED <<cacheVars, instanceVars, createVars, callVars, jobVars>>

SpecResolve == InitResolve /\ [][NextResolve]_vars

(***************************************************************************)
(* List of one provider, called by concurrent callers (SpecCache).         *)
(***************************************************************************)
InitCache ==
    /\ ResolveIdle
    /\ CallIdle
    /\ JobIdle
    /\ InstanceIdle
    /\ CreateIdle
    /\ prov \in Kinds
    /\ now = 0
    /\ ticks = 0
    /\ cache = [k \in CacheKeys(prov) |-> NoEntry]
    /\ mu = 0
    /\ pc = [c \in Callers |-> "idle"]
    /\ arg = [c \in Callers |-> ""]
    /\ ret = NoReturn
    /\ ncalls = 0
    /\ log = EmptyBag

\* Whether the entry of a key is within its TTL, whatever Get answers.
WithinTTL(key) == cache[key].set /\ now <= cache[key].exp

\* A return of List: by the first check ("cache"), by the double check
\* ("recheck") or after a fetch; fresh: the entry read was within its TTL.
Return(via, key, result) ==
    [key |-> key, via |-> via, fresh |-> via = "fetch" \/ WithinTTL(key), result |-> result]

\* A caller enters List: "Check cache first".  A hit returns at once, a miss
\* sends the caller to the mutex.
ListCall(c, zone) ==
    LET key == CacheKey(prov, zone)
    IN /\ pc[c] = "idle"
       /\ ncalls < MaxCalls
       /\ ncalls' = ncalls + 1
       /\ IF CacheFound(cache, key, now)
          THEN /\ ret' = Return("cache", key, Ok(cache[key].val))
               /\ UNCHANGED <<pc, arg>>
          ELSE /\ pc' = [pc EXCEPT ![c] = "lock"]
               /\ arg' = [arg EXCEPT ![c] = zone]
               /\ UNCHANGED ret
       /\ UNCHANGED <<prov, now, ticks, cache, mu, log>>

\* p.mu.Lock() and the "Double-check after acquiring lock": a hit returns
\* (and unlocks), a miss keeps the mutex for the fetch.
LockAndDoubleCheck(c) ==
    LET key == CacheKey(prov, arg[c])
    IN /\ pc[c] = "lock"
       /\ mu = 0
       /\ IF DoubleCheck(cache, key, now)
          THEN /\ pc' = [pc EXCEPT ![c] = "idle"]
               /\ arg' = [arg EXCEPT ![c] = ""]
               /\ ret' = Return("recheck", key, Ok(cache[key].val))
               /\ mu' = 0
          ELSE /\ pc' = [pc EXCEPT ![c] = "fetch"]
               /\ mu' = c
               /\ UNCHANGED <<arg, ret>>
       /\ UNCHANGED <<prov, now, ticks, cache, ncalls, log>>

\* The backend calls, "Cache the results", return and the deferred Unlock.
FetchAndStore(c) ==
    LET key == CacheKey(prov, arg[c])
    IN /\ pc[c] = "fetch"
       /\ mu = c
       /\ \E g \in Generations(prov), zoneErr \in ZoneErrs(prov),
             failed \in FailedSets(prov), tagErr \in TagErrs(prov) :
              LET f == Fetch(prov, arg[c], g, zoneErr, failed, tagErr)
                  newCache == IF f.stored THEN CacheSet(cache, key, f.result.val, now) ELSE cache
              IN /\ cache' = newCache
                 /\ ret' = Return("fetch", key, f.result)
                 /\ log' = log (+) SetToBag({[key |-> key, cold |-> ~WithinTTL(key),
                                                  failure |-> Failure(prov, zoneErr, failed),
                                                  stored |-> f.stored, ok |-> f.result.ok]})
       /\ pc' = [pc EXCEPT ![c] = "idle"]
       /\ arg' = [arg EXCEPT ![c] = ""]
       /\ mu' = 0
       /\ UNCHANGED <<prov, now, ticks, ncalls>>

\* Time passes: a whole TTL, or a minute more.
Tick(d) ==
    /\ ticks < MaxTicks
    /\ ticks' = ticks + 1
    /\ now' = now + d
    /\ UNCHANGED <<prov, cache, mu, pc, arg, ret, ncalls, log>>

NextCache ==
    /\ \/ \E c \in Callers, zone \in ArgZones(prov) : ListCall(c, zone)
       \/ \E c \in Callers : LockAndDoubleCheck(c)
       \/ \E c \in Callers : FetchAndStore(c)
       \/ \E d \in {defaultCacheTTL, defaultCacheTTL + 1} : Tick(d)
    /\ UNCHANGED <<resolveVars, instanceVars, createVars, callVars, jobVars>>

SpecCache == InitCache /\ [][NextCache]_vars

(***************************************************************************)
(* The instance provider: Get and Delete over its cache and the backend's  *)
(* virtual machines.  The provider has no mutex; a call is one step.       *)
(***************************************************************************)
CacheDeleteNot(c, key) == c

CacheDelete(c, key) == [c EXCEPT ![key] = NoEntry]

Instance(id) == [ID |-> id, State |-> "Running"]

\* What Get returns, and the cache it leaves.  listErr: the
\* ListVirtualMachines call fails.
GotInstance(c, outcome, cached) == [cache |-> c, outcome |-> outcome, cached |-> cached]

InstanceGetOneError(c, remote, id, t, listErr) ==
    IF CacheFound(c, InstanceKey(id), t)
    THEN GotInstance(c, "ok", TRUE)
    ELSE IF listErr \/ id \notin remote
    THEN GotInstance(c, "error: getting instance", FALSE)
    ELSE GotInstance(CacheSet(c, InstanceKey(id), Instance(id), t), "ok", FALSE)

InstanceGet(c, remote, id, t, listErr) ==
    IF CacheFound(c, InstanceKey(id), t)
    THEN GotInstance(c, "ok", TRUE)
    ELSE IF listErr
    THEN GotInstance(c, "error: getting instance", FALSE)
    ELSE IF id \notin remote
    THEN GotInstance(c, "notfound", FALSE)
    ELSE GotInstance(CacheSet(c, InstanceKey(id), Instance(id), t), "ok", FALSE)

\* The backend's answer to DestroyVirtualMachine with expunge.  destroyErr:
\* the call fails in transport; rejects: the backend answers a destroy of a
\* virtual machine it does not have with an error.
DestroyVirtualMachine(remote, id, destroyErr, rejects) ==
    IF destroyErr THEN [remote |-> remote, ok |-> FALSE]
    ELSE IF id \notin remote THEN [remote |-> remote, ok |-> ~rejects]
    ELSE [remote |-> remote \ {id}, ok |-> TRUE]

\* What Delete returns, with the cache and the backend it leaves.
InstanceDelete(c, remote, id, t, listErr, destroyErr, rejects) ==
    LET got == InstanceGet(c, remote, id, t, listErr)
        destroyed == DestroyVirtualMachine(remote, id, destroyErr, rejects)
        params == [id |-> id, expunge |-> TRUE]
    IN IF got.outcome = "notfound"
       THEN [cache |-> got.cache, remote |-> remote, outcome |-> "ok", cached |-> got.cached,
             got |-> got.outcome, destroys |-> <<>>]
       ELSE IF got.outcome # "ok"
       THEN [cache |-> got.cache, remote |-> remote,
             outcome |-> "error: checking instance existence", cached |-> got.cached,
             got |-> got.outcome, destroys |-> <<>>]
       ELSE IF ~destroyed.ok
       THEN [cache |-> got.cache, remote |-> destroyed.remote,
             outcome |-> "error: destroying instance", cached |-> got.cached,
             got |-> got.outcome, destroys |-> <<params>>]
       ELSE [cache |-> CacheDelete(got.cache, InstanceKey(id)), remote |-> destroyed.remote,
             outcome |-> "ok", cached |-> got.cached,
             got |-> got.outcome, destroys |-> <<params>>]

InitInstance ==
    /\ ResolveIdle
    /\ CallIdle
    /\ JobIdle
    /\ CacheIdle
    /\ CreateIdle
    /\ iRemote \in SUBSET InstanceIDs
    /\ iCache = [k \in {InstanceKey(id) : id \in InstanceIDs} |-> NoEntry]
    /\ iLast = NoCall

GetCall(id) ==
    \E listErr \in BOOLEAN :
        LET got == InstanceGet(iCache, iRemote, id, now, listErr)
        IN /\ iCache' = got.cache
           /\ iLast' = [op |-> "Get", id |-> id, absent |-> id \notin iRemote,
                        transport |-> ~got.cached /\ listErr,
                        cached |-> got.cached, outcome |-> got.outcome,
                        got |-> got.outcome, destroys |-> <<>>]
           /\ UNCHANGED iRemote

DeleteCall(id) ==
    \E listErr \in BOOLEAN, destroyErr \in BOOLEAN, rejects \in BOOLEAN :
        LET del == InstanceDelete(iCache, iRemote, id, now, listErr, destroyErr, rejects)
        IN /\ iCache' = del.cache
           /\ iRemote' = del.remote
           /\ iLast' = [op |-> "Delete", id |-> id, absent |-> id \notin iRemote,
                        transport |-> (~del.cached /\ listErr) \/ destroyErr,
                        cached |-> del.cached, outcome |-> del.outcome,
                        got |-> del.got, destroys |-> del.destroys]

\* A virtual machine disappears from the backend without the provider.
RemoteRemove(id) ==
    /\ id \in iRemote
    /\ iRemote' = iRemote \ {id}
    /\ UNCHANGED <<iCache, iLast>>

NextInstance ==
    /\ \/ \E id \in InstanceIDs : GetCall(id) /\ UNCHANGED cacheVars
       \/ \E id \in InstanceIDs : DeleteCall(id) /\ UNCHANGED cacheVars
       \/ \E id \in InstanceIDs : RemoteRemove(id) /\ UNCHANGED cacheVars
       \/ \E d \in {defaultCacheTTL, defaultCacheTTL + 1} : Tick(d) /\ UNCHANGED instanceVars
    /\ UNCHANGED <<resolveVars, createVars, callVars, jobVars>>

SpecInstance == InitInstance /\ [][NextInstance]_vars

(***************************************************************************)
(* Create of the instance provider: the checks before the deploy, the      *)
(* deploy, waitForVMState (a select over ctx.Done(), the timeout channel   *)
(* and the ticker, with a blocking poll per tick) and the tags.            *)
(***************************************************************************)
ManagedByTagKey == "karpenter.sh/managed-by"
ClusterNameTagKey == "kubernetes.io/cluster"
NodeClassTagKey == "karpenter.k8s.cloudstack/nodeclass"
NodeClaimTagKey == "karpenter.sh/nodeclaim"
NodePoolTagKey == "karpenter.sh/nodepool"
NodePoolLabelKey == "karpenter.sh/nodepool"

clusterName == "c1"

\* The map b with the entries of a added or overwritten: tags[k] = v.
SetAll(b, a) ==
    [k \in DOMAIN b \cup DOMAIN a |-> IF k \in DOMAIN a THEN a[k] ELSE b[k]]

buildTags(req) ==
    LET owned == [k \in {ManagedByTagKey, ClusterNameTagKey \o "/" \o clusterName,
                         NodeClassTagKey, NodeClaimTagKey} |->
                     CASE k = ManagedByTagKey -> "karpenter"
                       [] k = NodeClassTagKey -> req.nodeClass
                       [] k = NodeClaimTagKey -> req.nodeClaim
                       [] OTHER -> "owned"]
        pooled == IF NodePoolLabelKey \in DOMAIN req.labels
                  THEN SetAll(owned, Tag1(NodePoolTagKey, req.labels[NodePoolLabelKey]))
                  ELSE owned
    IN SetAll(pooled, req.userTags)

\* NodeClass tags the CRD admits: no empty key, none of the nodepool,
\* nodeclaim and nodeclass keys.
UserTagSets == {EmptyTags, Tag1("team", "a"), Tag1(ManagedByTagKey, "me")}

Requests ==
    [nodeClass : {"nc1"}, userTags : UserTagSets, nodeClaim : {"claim1"},
     labels : {EmptyTags, Tag1(NodePoolLabelKey, "np1")}]

\* The first failing check before the deploy, "" when all pass.
PreflightTemplateFirst(hasType, zoneErr, netErr, tplErr, offErr) ==
    IF ~hasType THEN "no suitable instance type found"
    ELSE IF tplErr THEN "resolving templates"
    ELSE IF zoneErr THEN "getting zone ID"
    ELSE IF netErr THEN "resolving networks"
    ELSE IF offErr THEN "getting service offering ID"
    ELSE ""

Preflight(hasType, zoneErr, netErr, tplErr, offErr) ==
    IF ~hasType THEN "no suitable instance type found"
    ELSE IF zoneErr THEN "getting zone ID"
    ELSE IF netErr THEN "resolving networks"
    ELSE IF tplErr THEN "resolving templates"
    ELSE IF offErr THEN "getting service offering ID"
    ELSE ""

\* The sub-operations of Create, in the order of its code.  Successive polls
\* count as one step.
CreateOrder ==
    <<"instanceType", "zone", "network", "template", "offering", "deploy", "poll", "tags">>

\* The sub-operations that have run when Create is past its deploy call, or
\* has returned the error e before it.
StepsUntil(e) ==
    SubSeq(CreateOrder, 1,
           CASE e = "no suitable instance type found" -> 1
             [] e = "getting zone ID" -> 2
             [] e = "resolving networks" -> 3
             [] e = "resolving templates" -> 4
             [] e = "getting service offering ID" -> 5
             [] OTHER -> 6)

\* The sub-operations whose backend fails in this call.
Faults(hasType, zoneErr, netErr, tplErr, offErr, deployErr) ==
    {CreateOrder[i] : i \in {i \in 1..6 :
        <<~hasType, zoneErr, netErr, tplErr, offErr, deployErr>>[i]}}

Failed(e) == [ok |-> FALSE, err |-> e, instance |-> <<>>]

Created(instance) == [ok |-> TRUE, err |-> "", instance |-> instance]

convertToInstance(id, state, tags) == [ID |-> id, State |-> state, Tags |-> tags]

CancelledErr == "waiting for VM to be running: context canceled"
TimeoutErr == "waiting for VM to be running: timeout waiting for VM"
QueryErr == "waiting for VM to be running: querying VM state"
NotFoundErr == "waiting for VM to be running: VM not found"

\* The cases of the select of waitForVMState.
SelectCasesNoDone == {"timeout", "tick"}

SelectCases == {"done", "timeout", "tick"}

\* The cases that can proceed now, were the timeout channel never to fire.
ReadyNoTimeout ==
    {k \in SelectCases :
        \/ k = "done" /\ cCancelled
        \/ k = "tick" /\ cTick}

\* The cases that can proceed now.
Ready ==
    {k \in SelectCases :
        \/ k = "done" /\ cCancelled
        \/ k = "timeout" /\ cElapsed >= WaitTimeout
        \/ k = "tick" /\ cTick}

\* The select runs as soon as a case can proceed.
AtReadySelect == cPc = "select" /\ Ready # {}

\* The states a virtual machine that is not Running is listed in.
NotRunningStates == {"Starting", "Stopped", "Error"}

\* The poll's early returns: the list call failed, or resp.Count == 0.
PollFailsOnError(listErr, state) == listErr \/ state \in {"absent", "Error"}

PollFails(listErr, state) == listErr \/ state = "absent"

\* vm.State == targetState.
ReachedAny(state) == TRUE

Reached(state) == state = "Running"

\* The backend calls after waitForVMState returned an error.
WaitFailedDestroy(calls) == calls \cup {"destroy"}

WaitFailed(calls) == calls

\* What Create returns after createTags.
TagsOutcomeStrict(tagErr, instance) ==
    IF tagErr THEN Failed("creating tags") ELSE Created(instance)

TagsOutcome(tagErr, instance) == Created(instance)

InitCreate ==
    /\ ResolveIdle
    /\ CallIdle
    /\ JobIdle
    /\ CacheIdle
    /\ InstanceIdle
    /\ CreateIdle

\* Create up to the deploy call and its answer.
CreateCall ==
    /\ cPc = "idle"
    /\ \E req \in Requests, hasType \in BOOLEAN, zoneErr \in BOOLEAN, netErr \in BOOLEAN,
          tplErr \in BOOLEAN, offErr \in BOOLEAN, deployErr \in BOOLEAN :
          LET e == Preflight(hasType, zoneErr, netErr, tplErr, offErr)
          IN /\ cReq' = req
             /\ cHist' = [cHist EXCEPT
                    !.faults = Faults(hasType, zoneErr, netErr, tplErr, offErr, deployErr),
                    !.steps = StepsUntil(e)]
             /\ IF e # ""
                THEN /\ cPc' = "done"
                     /\ cOut' = Failed(e)
                     /\ UNCHANGED <<cVm, cCalls>>
                ELSE IF deployErr
                THEN /\ cPc' = "done"
                     /\ cOut' = Failed("deploying virtual machine")
                     /\ cCalls' = {"deploy"}
                     /\ UNCHANGED cVm
                ELSE /\ cPc' = "select"
                     /\ cCalls' = {"deploy"}
                     /\ cVm' = "Starting"
                     /\ UNCHANGED cOut
    /\ UNCHANGED <<cElapsed, cTick, cCancelled>>

\* The time kept: up to MaxLate ticker periods past the timeout.
ClockEnd == WaitTimeout + MaxLate * TickerPeriod

\* A ticker period passes: a tick is buffered, and at the timeout the
\* timeout channel fires.  The ticker goes on past the time kept.
Advance ==
    /\ cPc \in {"select", "poll"}
    /\ ~AtReadySelect
    /\ cElapsed' = IF cElapsed < ClockEnd THEN cElapsed + TickerPeriod ELSE cElapsed
    /\ cTick' = TRUE
    /\ UNCHANGED <<cPc, cReq, cCancelled, cVm, cCalls, cHist, cOut>>

\* The context is cancelled, while the select is blocked or a poll is in flight.
Cancel ==
    /\ cPc \in {"select", "poll"}
    /\ ~AtReadySelect
    /\ ~cCancelled
    /\ cCancelled' = TRUE
    /\ cHist' = [cHist EXCEPT !.cancelBlocked = (cPc = "select")]
    /\ UNCHANGED <<cPc, cReq, cElapsed, cTick, cVm, cCalls, cOut>>

\* The backend moves the virtual machine on: it starts, it stops or fails
\* while starting, or it is gone.
VmChange ==
    /\ cPc \in {"select", "poll"}
    /\ ~AtReadySelect
    /\ \/ /\ cVm \in NotRunningStates
          /\ cVm' = "Running"
          /\ cHist' = [cHist EXCEPT !.runningBy =
                           IF cElapsed <= WaitTimeout THEN "deadline" ELSE "late"]
       \/ /\ cVm = "Starting"
          /\ cVm' \in {"Stopped", "Error"}
          /\ UNCHANGED cHist
       \/ /\ cVm \in NotRunningStates \cup {"Running"}
          /\ cVm' = "absent"
          /\ UNCHANGED cHist
    /\ UNCHANGED <<cPc, cReq, cElapsed, cTick, cCancelled, cCalls, cOut>>

\* The select takes one of the cases that can proceed: it returns on
\* ctx.Done() or the timeout, it issues the poll on a tick.
SelectTakes(k) ==
    /\ cPc = "select"
    /\ k \in Ready
    /\ IF k = "tick"
       THEN /\ cPc' = "poll"
            /\ cTick' = FALSE
            /\ cCalls' = cCalls \cup {"list"}
            /\ cHist' = [cHist EXCEPT !.pollAfterCancel = @ \/ cCancelled,
                                       !.steps = IF @[Len(@)] = "poll" THEN @
                                                 ELSE Append(@, "poll")]
            /\ UNCHANGED cOut
       ELSE /\ cPc' = "done"
            /\ cOut' = Failed(IF k = "done" THEN CancelledErr ELSE TimeoutErr)
            /\ cCalls' = WaitFailed(cCalls)
            /\ UNCHANGED <<cTick, cHist>>
    /\ UNCHANGED <<cReq, cElapsed, cCancelled, cVm>>

SelectCase == \E k \in SelectCases : SelectTakes(k)

\* The answer of ListVirtualMachines arrives.
PollReturn ==
    /\ cPc = "poll"
    /\ \E listErr \in BOOLEAN :
          IF PollFails(listErr, cVm)
          THEN /\ cPc' = "done"
               /\ cOut' = Failed(IF listErr THEN QueryErr ELSE NotFoundErr)
               /\ cCalls' = WaitFailed(cCalls)
               /\ cHist' = [cHist EXCEPT !.pollErr = listErr]
          ELSE IF Reached(cVm)
          THEN /\ cPc' = "tags"
               /\ cHist' = [cHist EXCEPT !.sawRunning = (cVm = "Running"),
                                          !.seen = @ \cup {cVm}]
               /\ UNCHANGED <<cOut, cCalls>>
          ELSE /\ cPc' = "select"
               /\ cHist' = [cHist EXCEPT !.seen = @ \cup {cVm}]
               /\ UNCHANGED <<cOut, cCalls>>
    /\ UNCHANGED <<cReq, cElapsed, cTick, cCancelled, cVm>>

\* buildTags, createTags, convertToInstance and the return.
TagsAndReturn ==
    /\ cPc = "tags"
    /\ \E tagErr \in BOOLEAN :
          LET tags == buildTags(cReq)
          IN /\ cCalls' = cCalls \cup {"tags"}
             /\ cHist' = [cHist EXCEPT !.tagErr = tagErr, !.sent = tags,
                                        !.steps = Append(@, "tags")]
             /\ cOut' = TagsOutcome(tagErr, convertToInstance("vm1", "Running", tags))
    /\ cPc' = "done"
    /\ UNCHANGED <<cReq, cElapsed, cTick, cCancelled, cVm>>

NextCreate ==
    /\ \/ CreateCall
       \/ Advance
       \/ Cancel
       \/ VmChange
       \/ SelectCase
       \/ PollReturn
       \/ TagsAndReturn
    /\ UNCHANGED <<resolveVars, cacheVars, instanceVars, callVars, jobVars>>

SpecCreate == InitCreate /\ [][NextCreate]_vars

\* Create as it is scheduled: time passes, a poll in flight is answered
\* (the HTTP client has a timeout), the goroutine runs, and a select picks
\* among the cases that can proceed at random, so a case that can proceed
\* again and again is taken in the end.
CreateFairness ==
    /\ WF_vars(Advance /\ UNCHANGED <<resolveVars, cacheVars, instanceVars, callVars, jobVars>>)
    /\ WF_vars(PollReturn /\ UNCHANGED <<resolveVars, cacheVars, instanceVars, callVars, jobVars>>)
    /\ WF_vars(TagsAndReturn /\ UNCHANGED <<resolveVars, cacheVars, instanceVars, callVars, jobVars>>)
    /\ \A k \in SelectCases :
           SF_vars(SelectTakes(k) /\ UNCHANGED <<resolveVars, cacheVars, instanceVars, callVars, jobVars>>)

\* The same with a select that is only known to take some case.
CreateWeakFairness ==
    /\ WF_vars(Advance /\ UNCHANGED <<resolveVars, cacheVars, instanceVars, callVars, jobVars>>)
    /\ WF_vars(PollReturn /\ UNCHANGED <<resolveVars, cacheVars, instanceVars, callVars, jobVars>>)
    /\ WF_vars(TagsAndReturn /\ UNCHANGED <<resolveVars, cacheVars, instanceVars, callVars, jobVars>>)
    /\ WF_vars(SelectCase /\ UNCHANGED <<resolveVars, cacheVars, instanceVars, callVars, jobVars>>)

FairSpecCreate == SpecCreate /\ CreateFairness

WeakSpecCreate == SpecCreate /\ CreateWeakFairness

(***************************************************************************)
(* List of the instance provider: all virtual machines, the tags of each,  *)
(* and only those carrying the managed-by tag.                             *)
(***************************************************************************)
\* The subsystems with state of their own, at rest.
AllIdleButJob ==
    /\ ResolveIdle
    /\ CacheIdle
    /\ InstanceIdle
    /\ CreateIdle

AllIdle ==
    /\ AllIdleButJob
    /\ JobIdle

idleVars == <<resolveVars, cacheVars, instanceVars, createVars, jobVars>>

VmTagSets ==
    {EmptyTags, Tag1("team", "a"), Tag1(ManagedByTagKey, "karpenter"),
     Tag2(ManagedByTagKey, "me", "team", "a")}

VmIDs == <<"i1", "i2", "i3">>

\* The virtual machines the backend lists, with the tags it holds for each.
VmInventories ==
    UNION {{[i \in 1..n |-> [ID |-> VmIDs[i], State |-> "Running", Tags |-> f[i]]] :
               f \in [1..n -> VmTagSets]} : n \in 0..MaxInv}

IsManagedAlways(tags) == TRUE

IsManaged(tags) == ManagedByTagKey \in DOMAIN tags

\* listErr: ListVirtualMachines fails; tagErr: the IDs whose getTags fails.
InstanceList(vms, tagErr, listErr) ==
    IF listErr
    THEN Err("listing instances", "")
    ELSE LET kept(vm) == vm.ID \notin tagErr /\ IsManaged(vm.Tags)
             managed == SelectSeq(vms, kept)
         IN Ok([i \in 1..Len(managed) |->
                   convertToInstance(managed[i].ID, managed[i].State, managed[i].Tags)])

ListInputs ==
    {[vms |-> vms, tagErr |-> tagErr, listErr |-> listErr] :
        vms \in VmInventories, tagErr \in SUBSET {"i1", "i2"}, listErr \in BOOLEAN}

InitList ==
    /\ AllIdle
    /\ opName = "List"
    /\ opIn \in ListInputs
    /\ opDone = FALSE
    /\ opOut = <<>>

InstanceListCall ==
    /\ opName = "List"
    /\ ~opDone
    /\ opOut' = InstanceList(opIn.vms, opIn.tagErr, opIn.listErr)
    /\ opDone' = TRUE
    /\ UNCHANGED <<opName, opIn>>

NextList == InstanceListCall /\ UNCHANGED idleVars

SpecList == InitList /\ [][NextList]_vars

(***************************************************************************)
(* Reconcile of the NodeClass controller: read the NodeClass, look its     *)
(* zone up by name, resolve its networks, resolve its templates, and write *)
(* the Ready condition.  Requeue delays are in minutes.                    *)
(***************************************************************************)
RequeueZoneFailure == 5
RequeueResolutionFailure == 1
RequeueReady == 15

\* What the zone provider's List can answer: each zone absent, enabled or
\* disabled, or the call failing.
ZoneLists ==
    {Err("listing zones", "")} \cup
    {Ok(SelectSeq(<<[ID |-> "zid1", Name |-> "z1", AllocationState |-> a1],
                    [ID |-> "zid2", Name |-> "z2", AllocationState |-> a2]>>,
                  LAMBDA z : z.AllocationState # "absent")) :
        a1, a2 \in {"absent", "Enabled", "Disabled"}}

\* lo.Find: the first of the zones that match, if any.
FirstZone(hits) ==
    IF Len(hits) = 0 THEN Err("zone not found", "") ELSE Ok(hits[1])

GetByNameFirst(listed, name) ==
    IF ~listed.ok THEN listed
    ELSE FirstZone(SelectSeq(listed.val, LAMBDA z : TRUE))

GetByName(listed, name) ==
    IF ~listed.ok THEN listed
    ELSE FirstZone(SelectSeq(listed.val, LAMBDA z : z.Name = name))

\* Defined by the zone provider; Reconcile does not call it.
ValidateZone(listed, zoneIdentifier) ==
    IF ~listed.ok THEN Err("validating zone", "")
    ELSE LET found == FirstZone(SelectSeq(listed.val,
                               LAMBDA z : z.ID = zoneIdentifier \/ z.Name = zoneIdentifier))
         IN IF ~found.ok THEN found
            ELSE IF found.val.AllocationState # "Enabled"
                 THEN Err("zone is not enabled", zoneIdentifier)
                 ELSE Ok(found.val)

NoCondition == [Type |-> "", Status |-> "", Reason |-> ""]

ReadyFalse(reason) == [Type |-> "Ready", Status |-> "False", Reason |-> reason]

ReadyTrue == [Type |-> "Ready", Status |-> "True", Reason |-> "Ready"]

\* What one Reconcile did: the stages it ran, the condition it set on the
\* NodeClass, whether it wrote the status and whether the write was kept,
\* and what it returned.
Reconciled(ran, condition, updateErr, requeueAfter, err) ==
    [ran |-> ran,
     condition |-> condition,
     updated |-> condition # NoCondition,
     stored |-> IF condition # NoCondition /\ ~updateErr THEN condition ELSE NoCondition,
     RequeueAfter |-> requeueAfter,
     err |-> err]

\* in.read: what reading the NodeClass gave ("ok", "notfound", "error",
\* "deleting"); in.updateErr: the status write fails.
Reconcile(in) ==
    LET zone == GetByName(in.zones, in.zone)
        networks == ResolveNetworks(in.netListed, in.netTerms, in.zone)
        templates == ResolveTemplates(in.tplListed, in.tplTerms, in.zone)
    IN CASE in.read = "notfound" -> Reconciled({}, NoCondition, FALSE, 0, "")
         [] in.read = "error" -> Reconciled({}, NoCondition, FALSE, 0, "get")
         [] in.read = "deleting" -> Reconciled({}, NoCondition, FALSE, 0, "")
         [] OTHER ->
              IF ~zone.ok
              THEN Reconciled({"zone"}, ReadyFalse("ZoneValidationFailed"),
                              in.updateErr, RequeueZoneFailure, "")
              ELSE IF ~networks.ok
              THEN Reconciled({"zone", "network"}, ReadyFalse("NetworkResolutionFailed"),
                              in.updateErr, RequeueResolutionFailure, "")
              ELSE IF ~templates.ok
              THEN Reconciled({"zone", "network", "template"},
                              ReadyFalse("TemplateResolutionFailed"),
                              in.updateErr, RequeueResolutionFailure, "")
              ELSE IF in.updateErr
              THEN Reconciled({"zone", "network", "template"}, ReadyTrue, TRUE, 0, "update")
              ELSE Reconciled({"zone", "network", "template"}, ReadyTrue, FALSE,
                              RequeueReady, "")

ReconcileTerms(kind) ==
    {<<>>} \cup {<<t>> : t \in {u \in TermsOf(kind) : u.ID = "" /\ u.Tags = EmptyTags}}

ReconcileListed(kind, zone) ==
    {ListErr(kind, zone)} \cup {Ok(inv) : inv \in Inventories(kind, zone, 1)}

\* The NodeClass, of the given zone, was read and is live.
LiveInputs(zone) ==
    {[read |-> "ok", zone |-> zone, zones |-> zones,
      netListed |-> netListed, netTerms |-> netTerms,
      tplListed |-> tplListed, tplTerms |-> tplTerms, updateErr |-> updateErr] :
        zones \in ZoneLists,
        netListed \in ReconcileListed("network", zone),
        netTerms \in ReconcileTerms("network"),
        tplListed \in ReconcileListed("template", zone),
        tplTerms \in ReconcileTerms("template"),
        updateErr \in BOOLEAN}

\* The NodeClass is gone, unreadable or being deleted: Reconcile returns
\* before it asks any provider.
GoneInputs ==
    {[read |-> read, zone |-> zone, zones |-> zones,
      netListed |-> ListErr("network", zone), netTerms |-> <<>>,
      tplListed |-> ListErr("template", zone), tplTerms |-> <<>>, updateErr |-> FALSE] :
        read \in {"notfound", "error", "deleting"}, zone \in Zones, zones \in ZoneLists}

InitReconcile ==
    /\ AllIdle
    /\ opName = "Reconcile"
    /\ \/ opIn \in GoneInputs
       \/ \E zone \in Zones : opIn \in LiveInputs(zone)
    /\ opDone = FALSE
    /\ opOut = <<>>

ReconcileCall ==
    /\ opName = "Reconcile"
    /\ ~opDone
    /\ opOut' = Reconcile(opIn)
    /\ opDone' = TRUE
    /\ UNCHANGED <<opName, opIn>>

NextReconcile == ReconcileCall /\ UNCHANGED idleVars

SpecReconcile == InitReconcile /\ [][NextReconcile]_vars

(***************************************************************************)
(* Hash of the NodeClass: hashstructure.Hash(in.Spec, FormatV2) with       *)
(* SlicesAsSets, IgnoreZeroValue and ZeroNil, printed in decimal.  A       *)
(* struct, a map and a slice taken as a set combine the hashes of their    *)
(* parts with exclusive or; a field joins its name to its value in order.  *)
(* Hashes are 16 bits wide here and 64 bits wide in the program.           *)
(***************************************************************************)
HashMod == 2^16

RECURSIVE Xor(_, _)
Xor(a, b) ==
    IF a = 0 THEN b
    ELSE IF b = 0 THEN a
    ELSE 2 * Xor(a \div 2, b \div 2) + ((a + b) % 2)

\* The strings a NodeClass spec is made of: type names, field names, values.
HashStrings ==
    <<"CloudStackNodeClassSpec", "NetworkSelectorTerm", "ServiceOfferingSelectorTerm",
      "TemplateSelectorTerm", "Zone", "NetworkSelectorTerms",
      "ServiceOfferingSelectorTerms", "TemplateSelectorTerms", "Tags", "ID", "Name",
      "OSType", "z1", "z2", "r1", "r2", "nA", "nB", "env", "prod", "dev", "team", "*",
      "ubuntu", "centos", "os-1", "os-2", "a", "UserData", "RootDiskSize",
      "DiskOffering", "SSHKeyPair", "u1", "d1", "k1", "">>

\* The hash of a string's bytes.
StrHash(str) ==
    LET i == CHOOSE k \in 1..Len(HashStrings) : HashStrings[k] = str
    IN (i * 40503 + 2166) % HashMod

hashUpdateOrdered(a, b) == (((a * 31 + b) % HashMod) * 251 + 1) % HashMod

hashUpdateUnordered(a, b) == Xor(a, b)

hashFinishUnordered(a) == ((a % HashMod) * 251 + 11) % HashMod

\* A map: every key joined to its value, in no order.
RECURSIVE hashMapFrom(_, _, _)
hashMapFrom(h, m, keys) ==
    IF keys = {} THEN hashFinishUnordered(h)
    ELSE LET k == CHOOSE x \in keys : TRUE
         IN hashMapFrom(hashUpdateUnordered(h, hashUpdateOrdered(StrHash(k), StrHash(m[k]))),
                        m, keys \ {k})

hashMap(m) == hashMapFrom(0, m, DOMAIN m)

\* A struct: the type name, then every field that is not the zero value,
\* its name joined to its value.  fields: <<name, isZero, hash>> each.
RECURSIVE hashStructFrom(_, _)
hashStructFrom(h, fields) ==
    IF fields = <<>> THEN hashFinishUnordered(h)
    ELSE hashStructFrom(IF fields[1][2] THEN h
                        ELSE hashUpdateUnordered(h,
                                 hashUpdateOrdered(StrHash(fields[1][1]), fields[1][3])),
                        Tail(fields))

hashStruct(typeName, fields) == hashStructFrom(StrHash(typeName), fields)

StringField(name, str) == <<name, str = "", IF str = "" THEN 0 ELSE StrHash(str)>>

TagsField(tags) == <<"Tags", DOMAIN tags = {}, hashMap(tags)>>

\* The hashes of a slice's elements, each joined to the ones before it.
RECURSIVE hashSliceOrdered(_)
hashSliceOrdered(hs) ==
    IF hs = <<>> THEN 0
    ELSE hashUpdateOrdered(hashSliceOrdered(SubSeq(hs, 1, Len(hs) - 1)), hs[Len(hs)])

\* SlicesAsSets: the hashes of a slice's elements, in no order.
RECURSIVE hashSlice(_)
hashSlice(hs) ==
    IF hs = <<>> THEN 0
    ELSE hashUpdateUnordered(hashSlice(SubSeq(hs, 1, Len(hs) - 1)), hs[Len(hs)])

hashTerm(typeName, term) ==
    hashStruct(typeName,
               <<TagsField(term.Tags), StringField("ID", term.ID),
                 StringField("Name", term.Name)>>
               \o (IF "OSType" \in DOMAIN term
                   THEN <<StringField("OSType", term.OSType)>> ELSE <<>>))

TermsField(name, typeName, terms) ==
    <<name, terms = <<>>, hashSlice([i \in 1..Len(terms) |-> hashTerm(typeName, terms[i])])>>

\* The hash of an int64's bytes.
IntHash(n) == (n * 28411 + 977) % HashMod

\* The optional fields of the spec.  A record without the field stands for
\* the nil pointer, a record with it for a pointer to the value.
PointerFields == {"UserData", "RootDiskSize", "DiskOffering", "SSHKeyPair"}

\* The field is the zero value of its type: for a pointer, nil and nothing
\* else.  A pointer to the zero value is not.
PointerIsZero(spec, name) == name \notin DOMAIN spec

\* A pointer field: hashed as what it points to.
PointerField(spec, name) ==
    <<name, PointerIsZero(spec, name),
      IF name \notin DOMAIN spec THEN 0
      ELSE IF name = "RootDiskSize" THEN IntHash(spec[name])
      ELSE StrHash(spec[name])>>

\* The Tags of the spec: a map that was never made is nil, the zero value;
\* a map that was made (TagsMade) is not, empty though it may be.
SpecTagsField(spec) ==
    <<"Tags", DOMAIN spec.Tags = {} /\ "TagsMade" \notin DOMAIN spec, hashMap(spec.Tags)>>

Hash(spec) ==
    ToString(hashStruct("CloudStackNodeClassSpec",
        <<StringField("Zone", spec.Zone),
          TermsField("NetworkSelectorTerms", "NetworkSelectorTerm",
                     spec.NetworkSelectorTerms),
          TermsField("ServiceOfferingSelectorTerms", "ServiceOfferingSelectorTerm",
                     spec.ServiceOfferingSelectorTerms),
          TermsField("TemplateSelectorTerms", "TemplateSelectorTerm",
                     spec.TemplateSelectorTerms),
          SpecTagsField(spec),
          PointerField(spec, "UserData"),
          PointerField(spec, "RootDiskSize"),
          PointerField(spec, "DiskOffering"),
          PointerField(spec, "SSHKeyPair")>>))

HashNetworkTerms ==
    {[ID |-> "r1", Name |-> "", Tags |-> EmptyTags],
     [ID |-> "", Name |-> "nB", Tags |-> Tag1("env", "*")]}

HashOfferingTerms ==
    {[ID |-> "", Name |-> "nA", Tags |-> EmptyTags],
     [ID |-> "", Name |-> "", Tags |-> Tag2("env", "dev", "team", "dev")]}

HashTemplateTerms ==
    {[ID |-> "", Name |-> "nA", Tags |-> EmptyTags, OSType |-> ""],
     [ID |-> "", Name |-> "", Tags |-> EmptyTags, OSType |-> "ubuntu"]}

NodeClassSpecs ==
    {[Zone |-> zone, NetworkSelectorTerms |-> nets, ServiceOfferingSelectorTerms |-> offs,
      TemplateSelectorTerms |-> tpls, Tags |-> tags] :
        zone \in {"z1"},
        nets \in BoundedSeq(HashNetworkTerms, 3),
        offs \in BoundedSeq(HashOfferingTerms, 2),
        tpls \in BoundedSeq(HashTemplateTerms, 2),
        tags \in {EmptyTags, Tag1("team", "a")}}

\* The orders the elements of a list can be put in.
Reorderings(list) ==
    {[i \in 1..Len(list) |-> list[p[i]]] : p \in Permutations(1..Len(list))}

\* A spec, and a second one: the first with its term lists reordered, or
\* with its zone changed.
HashInputs(a) ==
    {[a |-> a, b |-> [a EXCEPT !.NetworkSelectorTerms = nets,
                               !.ServiceOfferingSelectorTerms = offs,
                               !.TemplateSelectorTerms = tpls,
                               !.Zone = zone]] :
        nets \in Reorderings(a.NetworkSelectorTerms),
        offs \in Reorderings(a.ServiceOfferingSelectorTerms),
        tpls \in Reorderings(a.TemplateSelectorTerms),
        zone \in Zones}

InitHash ==
    /\ AllIdle
    /\ opName = "Hash"
    /\ \E a \in NodeClassSpecs : opIn \in HashInputs(a)
    /\ opDone = FALSE
    /\ opOut = <<>>

HashCall ==
    /\ opName = "Hash"
    /\ ~opDone
    /\ opOut' = [a |-> Hash(opIn.a), b |-> Hash(opIn.b)]
    /\ opDone' = TRUE
    /\ UNCHANGED <<opName, opIn>>

NextHash == HashCall /\ UNCHANGED idleVars

SpecHash == InitHash /\ [][NextHash]_vars

(***************************************************************************)
(* IsDrifted of the cloud provider: the NodeClaim's NodePool, the          *)
(* NodePool's NodeClass, then the hash recorded on the NodeClaim against   *)
(* the hash of the NodeClass as it is now.                                 *)
(***************************************************************************)
AnnotationNodeClassHash == "karpenter.k8s.cloudstack/nodeclass-hash"

\* Indexing a Go map: the zero value when the key is absent.
MapGet(m, k) == IF k \in DOMAIN m THEN m[k] ELSE ""

HashChangedWhenRecorded(currentHash, expectedHash) ==
    currentHash # "" /\ currentHash # expectedHash

HashChanged(currentHash, expectedHash) == currentHash # expectedHash

Drift(reason, err) == [reason |-> reason, err |-> err]

\* IsDrifted, were a NodeClass that cannot be resolved an error whatever the
\* cause.
IsDriftedNotFoundIsError(in) ==
    IF NodePoolLabelKey \notin DOMAIN in.labels THEN Drift("", "")
    ELSE IF in.pool = "notfound" THEN Drift("", "")
    ELSE IF in.pool = "error" THEN Drift("", "get nodepool")
    ELSE IF ~in.ref THEN Drift("", "")
    ELSE IF in.class # "ok" THEN Drift("", "resolving nodeclass")
    ELSE IF HashChanged(MapGet(in.annotations, AnnotationNodeClassHash), Hash(in.spec))
    THEN Drift("NodeClassDrifted", "")
    ELSE Drift("", "")

\* in.pool: reading the NodePool ("ok", "notfound", "error"); in.ref: the
\* NodePool names a NodeClass; in.class: reading the NodeClass ("ok",
\* "notfound", "error", "deleting").
IsDrifted(in) ==
    IF NodePoolLabelKey \notin DOMAIN in.labels THEN Drift("", "")
    ELSE IF in.pool = "notfound" THEN Drift("", "")
    ELSE IF in.pool = "error" THEN Drift("", "get nodepool")
    ELSE IF ~in.ref THEN Drift("", "")
    ELSE IF in.class \in {"notfound", "deleting"} THEN Drift("", "")
    ELSE IF in.class = "error" THEN Drift("", "resolving nodeclass")
    ELSE IF HashChanged(MapGet(in.annotations, AnnotationNodeClassHash), Hash(in.spec))
    THEN Drift("NodeClassDrifted", "")
    ELSE Drift("", "")

\* The NodeClass specs drift is looked for between.
DriftSpecs ==
    {s \in NodeClassSpecs :
        /\ Len(s.NetworkSelectorTerms) <= 1
        /\ s.ServiceOfferingSelectorTerms = <<>>
        /\ s.TemplateSelectorTerms = <<>>}

\* A NodeClaim without the annotation, or with the hash of some spec.
DriftInputs(spec) ==
    {[labels |-> labels, pool |-> pool, ref |-> ref, class |-> class,
      annotations |-> annotations, spec |-> spec] :
        labels \in {EmptyTags, Tag1(NodePoolLabelKey, "pool")},
        pool \in {"ok", "notfound", "error"},
        ref \in BOOLEAN,
        class \in {"ok", "notfound", "error", "deleting"},
        annotations \in {EmptyTags} \cup
                        {Tag1(AnnotationNodeClassHash, Hash(s)) : s \in DriftSpecs}}

InitDrift ==
    /\ AllIdle
    /\ opName = "IsDrifted"
    /\ \E spec \in DriftSpecs : opIn \in DriftInputs(spec)
    /\ opDone = FALSE
    /\ opOut = <<>>

IsDriftedCall ==
    /\ opName = "IsDrifted"
    /\ ~opDone
    /\ opOut' = IsDrifted(opIn)
    /\ opDone' = TRUE
    /\ UNCHANGED <<opName, opIn>>

NextDrift == IsDriftedCall /\ UNCHANGED idleVars

SpecDrift == InitDrift /\ [][NextDrift]_vars

(***************************************************************************)
(* Provider IDs: "cloudstack://<zone>/<instance-id>".  Strings are         *)
(* sequences of characters.                                                *)
(***************************************************************************)
Chars == {"a", "b", "/"}

ProviderIDPrefix == <<"c", "l", "o", "u", "d", "s", "t", "a", "c", "k", ":", "/", "/">>

\* strings.Split(s, "/"): the pieces between the separators, at least one.
RECURSIVE SplitFrom(_, _, _)
SplitFrom(s, piece, parts) ==
    IF s = <<>> THEN Append(parts, piece)
    ELSE IF Head(s) = "/" THEN SplitFrom(Tail(s), <<>>, Append(parts, piece))
    ELSE SplitFrom(Tail(s), Append(piece, Head(s)), parts)

Split(s) == SplitFrom(s, <<>>, <<>>)

ReverseNot(parts) == parts

\* lo.Reverse
Reverse(parts) == [i \in 1..Len(parts) |-> parts[Len(parts) + 1 - i]]

Parsed(id, err) == [id |-> id, err |-> err]

ParseProviderID(providerID) ==
    IF providerID = <<>> THEN Parsed(<<>>, "provider ID is empty")
    ELSE LET parts == Split(providerID)
         IN IF Len(parts) = 0 THEN Parsed(<<>>, "invalid provider ID format")
            ELSE Parsed(Reverse(parts)[1], "")

FormatProviderID(zone, instanceID) == ProviderIDPrefix \o zone \o <<"/">> \o instanceID

InitProviderID ==
    /\ AllIdle
    /\ \/ /\ opName = "FormatProviderID"
          /\ opIn \in {[zone |-> zone, instanceID |-> id] :
                          zone \in BoundedSeq(Chars, MaxStr), id \in BoundedSeq(Chars, MaxStr)}
       \/ /\ opName = "ParseProviderID"
          /\ opIn \in {[providerID |-> p] : p \in BoundedSeq(Chars, MaxStr + 1)}
    /\ opDone = FALSE
    /\ opOut = <<>>

\* A provider ID is formatted and parsed back.
FormatAndParseCall ==
    /\ opName = "FormatProviderID"
    /\ ~opDone
    /\ opOut' = ParseProviderID(FormatProviderID(opIn.zone, opIn.instanceID))
    /\ opDone' = TRUE
    /\ UNCHANGED <<opName, opIn>>

\* Any string is parsed as a provider ID.
ParseProviderIDCall ==
    /\ opName = "ParseProviderID"
    /\ ~opDone
    /\ opOut' = ParseProviderID(opIn.providerID)
    /\ opDone' = TRUE
    /\ UNCHANGED <<opName, opIn>>

NextProviderID ==
    /\ \/ FormatAndParseCall
       \/ ParseProviderIDCall
    /\ UNCHANGED idleVars

SpecProviderID == InitProviderID /\ [][NextProviderID]_vars

(***************************************************************************)
(* Get of the instance provider under concurrent callers.  The provider    *)
(* has a cache and no mutex: a caller that misses the cache calls the      *)
(* backend and stores what it got.                                         *)
(***************************************************************************)
InstanceKeys == {InstanceKey(id) : id \in InstanceIDs}

\* Get after its cache miss: the backend call and "Cache the result".
\* found: the backend has the instance.
InstanceFetch(id, listErr, found) ==
    IF listErr THEN Fetched(Err("getting instance", ""), FALSE)
    ELSE IF ~found THEN Fetched(Err("instance not found", ""), FALSE)
    ELSE Fetched(Ok(Instance(id)), TRUE)

InitGet ==
    /\ ResolveIdle
    /\ CallIdle
    /\ JobIdle
    /\ InstanceIdle
    /\ CreateIdle
    /\ prov = "instance"
    /\ now = 0
    /\ ticks = 0
    /\ cache = [k \in InstanceKeys |-> NoEntry]
    /\ mu = 0
    /\ pc = [c \in Callers |-> "idle"]
    /\ arg = [c \in Callers |-> ""]
    /\ ret = NoReturn
    /\ ncalls = 0
    /\ log = EmptyBag

\* A caller enters Get: "Check cache".  A hit returns at once, a miss sends
\* the caller to the backend.
GetEnter(c, id) ==
    LET key == InstanceKey(id)
    IN /\ pc[c] = "idle"
       /\ ncalls < MaxCalls
       /\ ncalls' = ncalls + 1
       /\ IF CacheFound(cache, key, now)
          THEN /\ ret' = Return("cache", key, Ok(cache[key].val))
               /\ UNCHANGED <<pc, arg>>
          ELSE /\ pc' = [pc EXCEPT ![c] = "fetch"]
               /\ arg' = [arg EXCEPT ![c] = id]
               /\ UNCHANGED ret
       /\ UNCHANGED <<prov, now, ticks, cache, mu, log>>

\* The backend call, "Cache the result" and the return.
GetFetchAndStore(c) ==
    LET key == InstanceKey(arg[c])
    IN /\ pc[c] = "fetch"
       /\ \E listErr \in BOOLEAN, found \in BOOLEAN :
              LET f == InstanceFetch(arg[c], listErr, found)
              IN /\ cache' = IF f.stored THEN CacheSet(cache, key, f.result.val, now)
                             ELSE cache
                 /\ ret' = Return("fetch", key, f.result)
                 /\ log' = log (+) SetToBag({[key |-> key, cold |-> ~WithinTTL(key),
                                                  failure |-> IF f.result.ok THEN "none"
                                                              ELSE "total",
                                                  stored |-> f.stored, ok |-> f.result.ok]})
       /\ pc' = [pc EXCEPT ![c] = "idle"]
       /\ arg' = [arg EXCEPT ![c] = ""]
       /\ UNCHANGED <<prov, now, ticks, mu, ncalls>>

NextGet ==
    /\ \/ \E c \in Callers, id \in InstanceIDs : GetEnter(c, id)
       \/ \E c \in Callers : GetFetchAndStore(c)
       \/ \E d \in {defaultCacheTTL, defaultCacheTTL + 1} : Tick(d)
    /\ UNCHANGED <<resolveVars, instanceVars, createVars, callVars, jobVars>>

SpecGet == InitGet /\ [][NextGet]_vars

(***************************************************************************)
(* Client.WaitForAsyncJob: a select over ctx.Done(), the channel of        *)
(* time.After(timeout) and a ticker of TickerPeriod seconds; on a tick the *)
(* job is queried and the call returns unless the job is pending.          *)
(***************************************************************************)
\* The polls kept in job.polled.
MaxPolls == 3

JobPending == 0
JobSuccess == 1
JobFailed == 2

\* Jobstatus values of the backend, one of them outside the documented three.
JobStatuses == {JobPending, JobSuccess, JobFailed, 3}

\* Jobresult texts of a finished job.
JobResults == {"r1", "r2"}

\* The caller-supplied timeout.
JobTimeouts == {0, TickerPeriod, 2 * TickerPeriod}

JobClockEnd == 2 * TickerPeriod + MaxLate * TickerPeriod

\* The error returned, with the Jobresult text it carries if any.
JobErr(msg, carried) == [msg |-> msg, carried |-> carried]

NoJobErr == JobErr("", "")

\* ctx.Err() of a cancelled context.
ContextCanceled == "context canceled"

\* The switch on result.Jobstatus, the failed status read as success.
JobOutcomeFailedIsSuccess(queryErr, status, result) ==
    IF queryErr
    THEN [returns |-> TRUE, via |-> "query", ok |-> FALSE,
          err |-> JobErr("querying async job", ""), result |-> ""]
    ELSE CASE status \in {JobSuccess, JobFailed} ->
              [returns |-> TRUE, via |-> "status", ok |-> TRUE, err |-> NoJobErr,
               result |-> result]
           [] status = JobPending ->
              [returns |-> FALSE, via |-> "", ok |-> FALSE, err |-> NoJobErr, result |-> ""]
           [] OTHER ->
              [returns |-> TRUE, via |-> "status", ok |-> FALSE,
               err |-> JobErr("unknown job status", ""), result |-> ""]

\* What one tick of the loop does with the answer of QueryAsyncJobResult.
JobOutcome(queryErr, status, result) ==
    IF queryErr
    THEN [returns |-> TRUE, via |-> "query", ok |-> FALSE,
          err |-> JobErr("querying async job", ""), result |-> ""]
    ELSE CASE status = JobSuccess ->
              [returns |-> TRUE, via |-> "status", ok |-> TRUE, err |-> NoJobErr,
               result |-> result]
           [] status = JobFailed ->
              [returns |-> TRUE, via |-> "status", ok |-> FALSE,
               err |-> JobErr("async job failed", result), result |-> ""]
           [] status = JobPending ->
              [returns |-> FALSE, via |-> "", ok |-> FALSE, err |-> NoJobErr, result |-> ""]
           [] OTHER ->
              [returns |-> TRUE, via |-> "status", ok |-> FALSE,
               err |-> JobErr("unknown job status", ""), result |-> ""]

\* The cases of the select that can proceed now.
JobReady ==
    {k \in SelectCases :
        \/ k = "done" /\ job.cancelled
        \/ k = "timeout" /\ job.elapsed >= job.timeout
        \/ k = "tick" /\ job.tick}

AtReadyJobSelect == job.pc = "select" /\ JobReady # {}

\* The last MaxPolls statuses polled.
Recent(s) == IF Len(s) > MaxPolls THEN Tail(s) ELSE s

InitJob ==
    /\ AllIdleButJob
    /\ CallIdle
    /\ \E t \in JobTimeouts : job = [NoJob EXCEPT !.pc = "select", !.timeout = t]

\* A ticker period passes: a tick is buffered.
JobAdvance ==
    /\ job.pc \in {"select", "poll"}
    /\ ~AtReadyJobSelect
    /\ job' = [job EXCEPT
           !.elapsed = IF @ < JobClockEnd THEN @ + TickerPeriod ELSE @,
           !.tick = TRUE]

\* The context is cancelled.
JobCancel ==
    /\ job.pc \in {"select", "poll"}
    /\ ~AtReadyJobSelect
    /\ ~job.cancelled
    /\ job' = [job EXCEPT !.cancelled = TRUE]

\* The backend finishes the job.
JobChange ==
    /\ job.pc \in {"select", "poll"}
    /\ ~AtReadyJobSelect
    /\ job.status = JobPending
    /\ \E s \in JobStatuses \ {JobPending}, r \in JobResults :
          job' = [job EXCEPT !.status = s, !.jobresult = r]

\* The select takes one of the cases that can proceed.
JobSelectTakes(k) ==
    /\ job.pc = "select"
    /\ k \in JobReady
    /\ job' = IF k = "tick"
              THEN [job EXCEPT !.pc = "poll", !.tick = FALSE]
              ELSE [job EXCEPT
                       !.pc = "done", !.via = k,
                       !.err = JobErr(IF k = "done" THEN ContextCanceled
                                      ELSE "timeout waiting for async job", "")]

JobSelect == \E k \in SelectCases : JobSelectTakes(k)

\* QueryAsyncJobResult answers and the switch on the status runs.
JobPollReturn ==
    /\ job.pc = "poll"
    /\ \E queryErr \in BOOLEAN :
          LET o == JobOutcome(queryErr, job.status, job.jobresult)
          IN job' = [job EXCEPT
                 !.pc = IF o.returns THEN "done" ELSE "select",
                 !.polled = IF queryErr THEN @ ELSE Recent(Append(@, job.status)),
                 !.via = o.via, !.ok = o.ok, !.err = o.err, !.result = o.result]

NextJob ==
    /\ \/ JobAdvance
       \/ JobCancel
       \/ JobChange
       \/ JobSelect
       \/ JobPollReturn
    /\ UNCHANGED <<resolveVars, cacheVars, instanceVars, createVars, callVars>>

SpecJob == InitJob /\ [][NextJob]_vars

(***************************************************************************)
(* List and Resolve of the network, template and instance-type providers   *)
(* over the provider's cache, one call at a time.  The cached value is the *)
(* slice the fetch built; a later call reads that same slice.              *)
(***************************************************************************)
ResolverKinds == {"network", "template", "offering"}

\* The cached slice after a selection that filtered it in place.
AfterSelectInPlace(all, matched) == matched

\* The cached slice after lo.Find, lo.Filter and lo.UniqBy have run over it:
\* each builds its result in a slice of its own.
AfterSelect(all, matched) == all

\* List (for the offerings: the head of resolveServiceOfferings): the cache
\* it leaves, the list it yields and the way it got it.
Listing(c, kind, zone, t, g, zoneErr, failed, tagErr) ==
    LET key == CacheKey(kind, zone)
    IN IF CacheFound(c, key, t)
       THEN [cache |-> c, listed |-> Ok(c[key].val), via |-> "cache"]
       ELSE LET f == Fetch(kind, zone, g, zoneErr, failed, tagErr)
            IN [cache |-> IF f.stored THEN CacheSet(c, key, f.result.val, t) ELSE c,
                listed |-> f.result, via |-> "fetch"]

\* ResolveNetworks, ResolveTemplates, resolveServiceOfferings on what List
\* yielded.
Resolving(kind, listed, terms, zone) ==
    CASE kind = "network" -> ResolveNetworks(listed, terms, zone)
      [] kind = "template" -> ResolveTemplates(listed, terms, zone)
      [] kind = "offering" ->
            IF listed.ok THEN Ok(filterServiceOfferings(listed.val, terms)) ELSE listed

\* The selector terms of the Resolve calls: none, or one term without a Name.
FrameTerms(kind) == BoundedSeq({t \in TermsOf(kind) : t.Name = ""}, 1)

\* The backend inputs a call draws: none when the cache answers, and none
\* for the calls that are not reached after a call that failed.
FetchInputs(kind, hit) ==
    IF hit
    THEN {[g |-> 1, zoneErr |-> FALSE, failed |-> {}, tagErr |-> {}]}
    ELSE {b \in [g : Generations(kind), zoneErr : ZoneErrs(kind),
                 failed : FailedSets(kind), tagErr : TagErrs(kind)] :
             /\ b.zoneErr => (b.g = 1 /\ b.failed = {} /\ b.tagErr = {})
             /\ (kind # "template" /\ b.failed # {}) => (b.g = 1 /\ b.tagErr = {})}

FrameReturn(op, zone, via, listed, result) ==
    [op |-> op, zone |-> zone, key |-> CacheKey(prov, zone), via |-> via,
     listed |-> listed, result |-> result]

InitFrame ==
    /\ ResolveIdle
    /\ InstanceIdle
    /\ CreateIdle
    /\ CallIdle
    /\ JobIdle
    /\ prov \in ResolverKinds
    /\ now = 0
    /\ ticks = 0
    /\ cache = [k \in CacheKeys(prov) |-> NoEntry]
    /\ mu = 0
    /\ pc = [c \in Callers |-> "idle"]
    /\ arg = [c \in Callers |-> ""]
    /\ ret = FrameReturn("", "", "", Ok(<<>>), Ok(<<>>))
    /\ ncalls = 0
    /\ log = EmptyBag

\* A List call of the network or the template provider.
ListFrameCall(zone) ==
    /\ prov \in {"network", "template"}
    /\ ncalls < MaxCalls
    /\ ncalls' = ncalls + 1
    /\ \E b \in FetchInputs(prov, CacheFound(cache, CacheKey(prov, zone), now)) :
          LET l == Listing(cache, prov, zone, now, b.g, b.zoneErr, b.failed, b.tagErr)
          IN /\ cache' = l.cache
             /\ ret' = FrameReturn("List", zone, l.via, l.listed, l.listed)
    /\ UNCHANGED <<prov, now, ticks, mu, pc, arg, log>>

\* A Resolve call: List, then the selection by the terms.
ResolveFrameCall(zone) ==
    /\ ncalls < MaxCalls
    /\ ncalls' = ncalls + 1
    /\ \E b \in FetchInputs(prov, CacheFound(cache, CacheKey(prov, zone), now)),
          terms \in FrameTerms(prov) :
          LET l == Listing(cache, prov, zone, now, b.g, b.zoneErr, b.failed, b.tagErr)
              key == CacheKey(prov, zone)
              result == Resolving(prov, l.listed, terms, zone)
          IN /\ cache' = IF l.cache[key].set /\ l.listed.ok
                         THEN [l.cache EXCEPT ![key].val = AfterSelect(@, result.val)]
                         ELSE l.cache
             /\ ret' = FrameReturn("Resolve", zone, l.via, l.listed, result)
    /\ UNCHANGED <<prov, now, ticks, mu, pc, arg, log>>

NextFrame ==
    /\ \/ \E zone \in Zones : ListFrameCall(zone)
       \/ \E zone \in Zones : ResolveFrameCall(zone)
       \/ \E d \in {defaultCacheTTL, defaultCacheTTL + 1} : Tick(d)
    /\ UNCHANGED <<resolveVars, instanceVars, createVars, callVars, jobVars>>

SpecFrame == InitFrame /\ [][NextFrame]_vars

(***************************************************************************)
(* A List of the network or the template provider on a cold cache in which *)
(* tag lookups fail, and the Resolve that selects from the list.           *)
(***************************************************************************)
TagLookupInputs(kind) ==
    [kind : {kind}, zone : Zones, g : Generations(kind), tagErr : SUBSET {"r1", "r2"},
     terms : BoundedSeq(TermsOf(kind), MaxTerms)]

\* List, then the term loop and the whole of Resolve on what it listed.
ListThenResolve(in) ==
    LET cold == [k \in CacheKeys(in.kind) |-> NoEntry]
        l == Listing(cold, in.kind, in.zone, 0, in.g, FALSE, {}, in.tagErr)
    IN [listed |-> l.listed,
        entry |-> l.cache[CacheKey(in.kind, in.zone)],
        perTerm |-> IF l.listed.ok THEN PerTerm(in.kind, l.listed.val, in.terms) ELSE <<>>,
        result |-> Resolving(in.kind, l.listed, in.terms, in.zone)]

InitTagLookup ==
    /\ AllIdle
    /\ opName = "ListThenResolve"
    /\ \E kind \in {"network", "template"} : opIn \in TagLookupInputs(kind)
    /\ opDone = FALSE
    /\ opOut = <<>>

ListThenResolveCall ==
    /\ opName = "ListThenResolve"
    /\ ~opDone
    /\ opOut' = ListThenResolve(opIn)
    /\ opDone' = TRUE
    /\ UNCHANGED <<opName, opIn>>

NextTagLookup == ListThenResolveCall /\ UNCHANGED idleVars

SpecTagLookup == InitTagLookup /\ [][NextTagLookup]_vars

(***************************************************************************)
(* Hash of two NodeClass specs that differ in one optional field: absent   *)
(* in the first, set to the zero value of its type in the second.  The     *)
(* hash of the first is the one recorded on a NodeClaim, the second is the *)
(* NodeClass as IsDrifted reads it.                                        *)
(***************************************************************************)
OptionalFields == PointerFields \cup {"Tags"}

\* A value of an optional field that is not the zero value.
SomeValue(name) ==
    CASE name = "UserData" -> "u1"
      [] name = "RootDiskSize" -> 20
      [] name = "DiskOffering" -> "d1"
      [] name = "SSHKeyPair" -> "k1"

ZeroValue(name) == IF name = "RootDiskSize" THEN 0 ELSE ""

\* The spec with a pointer field set.
WithField(spec, name, v) ==
    [k \in DOMAIN spec \cup {name} |-> IF k = name THEN v ELSE spec[k]]

RECURSIVE WithFields(_, _)
WithFields(spec, names) ==
    IF names = {} THEN spec
    ELSE LET name == CHOOSE n \in names : TRUE
         IN WithFields(WithField(spec, name, SomeValue(name)), names \ {name})

\* The spec with the optional field set to the zero value of its type: a
\* pointer to "" or to 0, a map with no entry.
WithZero(spec, name) ==
    IF name = "Tags" THEN WithField(spec, "TagsMade", TRUE)
    ELSE WithField(spec, name, ZeroValue(name))

ZeroHashBases ==
    {[Zone |-> zone, NetworkSelectorTerms |-> nets, ServiceOfferingSelectorTerms |-> <<>>,
      TemplateSelectorTerms |-> <<>>, Tags |-> EmptyTags] :
        zone \in Zones, nets \in BoundedSeq(HashNetworkTerms, 1)}

\* a: a spec with some pointer fields set and the field absent; b: a with
\* the field set to its zero value.
ZeroHashInputs(base) ==
    UNION {{[field |-> f, a |-> WithFields(base, set),
             b |-> WithZero(WithFields(base, set), f)] : set \in SUBSET (PointerFields \ {f})} :
           f \in OptionalFields}

InitZeroHash ==
    /\ AllIdle
    /\ opName = "HashAbsentAndZero"
    /\ \E base \in ZeroHashBases : opIn \in ZeroHashInputs(base)
    /\ opDone = FALSE
    /\ opOut = <<>>

\* Hash of a, recorded; then Hash of b and the comparison of IsDrifted.
HashAbsentAndZeroCall ==
    /\ opName = "HashAbsentAndZero"
    /\ ~opDone
    /\ opOut' = [a |-> Hash(opIn.a), b |-> Hash(opIn.b),
                 drifted |-> HashChanged(Hash(opIn.a), Hash(opIn.b))]
    /\ opDone' = TRUE
    /\ UNCHANGED <<opName, opIn>>

NextZeroHash == HashAbsentAndZeroCall /\ UNCHANGED idleVars

SpecZeroHash == InitZeroHash /\ [][NextZeroHash]_vars

(***************************************************************************)
(* CloudProvider.Create: the NodeClass of the NodeClaim, its Ready         *)
(* condition, the instance types, the instance provider's Create and the   *)
(* NodeClaim made of the instance; then IsDrifted on that NodeClaim.       *)
(***************************************************************************)
AnnotationNodeClassHashVersion == "karpenter.k8s.cloudstack/nodeclass-hash-version"

CloudStackNodeClassHashVersion == "v1"

StatusCondition(type, status) == [Type |-> type, Status |-> status]

\* The condition lists of a NodeClass: at most one condition of a type.
ConditionLists ==
    {<<>>, <<StatusCondition("Other", "True")>>} \cup
    UNION {{<<StatusCondition("Ready", s)>>,
            <<StatusCondition("Other", "True"), StatusCondition("Ready", s)>>} :
           s \in {"True", "False", "Unknown"}}

\* GetCondition: the first condition of the type, as a sequence of length 0
\* (nil) or 1.
GetCondition(conditions, type) ==
    LET hits == {i \in 1..Len(conditions) : conditions[i].Type = type}
    IN IF hits = {} THEN <<>> ELSE <<conditions[Min(hits)]>>

\* The Ready check, any Ready condition taken for readiness.
IsReadyWhenPresent(conditions) == GetCondition(conditions, "Ready") # <<>>

\* readyCondition != nil && readyCondition.Status == metav1.ConditionTrue.
IsReady(conditions) ==
    LET readyCondition == GetCondition(conditions, "Ready")
    IN readyCondition # <<>> /\ readyCondition[1].Status = "True"

\* The annotations of the NodeClaim, the hash left out.
CreatedAnnotationsNoHash(spec) ==
    Tag1(AnnotationNodeClassHashVersion, CloudStackNodeClassHashVersion)

\* lo.Assign of the hash and the hash version onto the empty annotations.
CreatedAnnotations(spec) ==
    Tag2(AnnotationNodeClassHash, Hash(spec),
         AnnotationNodeClassHashVersion, CloudStackNodeClassHashVersion)

\* instanceToNodeClaim: the NodePool label comes from the NodePool tag of the
\* instance, which buildTags takes from the NodePool label of the NodeClaim
\* that was passed to Create.
instanceToNodeClaim(labels) ==
    IF NodePoolLabelKey \in DOMAIN labels
    THEN Tag1(NodePoolLabelKey, labels[NodePoolLabelKey])
    ELSE EmptyTags

CloudCreated(err, calls, claim) ==
    [err |-> err, calls |-> calls, claim |-> claim, drift |-> <<>>]

\* in.class: reading the NodeClass ("ok", "notfound", "error", "deleting");
\* in.typesErr: the instance type List fails; in.createErr: the instance
\* provider's Create fails.
CloudProviderCreate(in) ==
    IF in.class \in {"notfound", "deleting"}
    THEN CloudCreated("InsufficientCapacity: resolving nodeclass", <<>>, <<>>)
    ELSE IF in.class = "error"
    THEN CloudCreated("resolving nodeclass", <<>>, <<>>)
    ELSE IF ~IsReady(in.conditions)
    THEN CloudCreated("NodeClassNotReady", <<>>, <<>>)
    ELSE IF in.typesErr
    THEN CloudCreated("CreateError: resolving instance types",
                      <<"instanceTypeProvider.List">>, <<>>)
    ELSE IF in.createErr
    THEN CloudCreated("creating instance",
                      <<"instanceTypeProvider.List", "instanceProvider.Create">>, <<>>)
    ELSE CloudCreated("", <<"instanceTypeProvider.List", "instanceProvider.Create">>,
                      <<[labels |-> instanceToNodeClaim(in.labels),
                         annotations |-> CreatedAnnotations(in.spec)]>>)

CloudCreateInputs(spec) ==
    [class : {"ok", "notfound", "error", "deleting"}, conditions : ConditionLists,
     typesErr : BOOLEAN, createErr : BOOLEAN,
     labels : {EmptyTags, Tag1(NodePoolLabelKey, "pool")}, spec : {spec}]

InitCloudCreate ==
    /\ AllIdle
    /\ opName = "CloudProvider.Create"
    /\ \E spec \in DriftSpecs : opIn \in CloudCreateInputs(spec)
    /\ opDone = FALSE
    /\ opOut = <<>>

CloudProviderCreateCall ==
    /\ opName = "CloudProvider.Create"
    /\ ~opDone
    /\ opOut' = CloudProviderCreate(opIn)
    /\ opDone' = TRUE
    /\ UNCHANGED <<opName, opIn>>

\* IsDrifted on the NodeClaim Create returned, the NodeClass spec being by
\* now what it was or another.
IsDriftedOnCreatedCall ==
    /\ opName = "CloudProvider.Create"
    /\ opDone
    /\ opOut.err = ""
    /\ opOut.drift = <<>>
    /\ \E spec \in DriftSpecs, pool \in {"ok", "notfound", "error"}, ref \in BOOLEAN,
          class \in {"ok", "notfound", "error", "deleting"} :
          LET in == [labels |-> opOut.claim[1].labels, pool |-> pool, ref |-> ref,
                     class |-> class, annotations |-> opOut.claim[1].annotations,
                     spec |-> spec]
          IN opOut' = [opOut EXCEPT !.drift = <<[in |-> in, out |-> IsDrifted(in)]>>]
    /\ UNCHANGED <<opName, opIn, opDone>>

NextCloudCreate ==
    /\ \/ CloudProviderCreateCall
       \/ IsDriftedOnCreatedCall
    /\ UNCHANGED idleVars

SpecCloudCreate == InitCloudCreate /\ [][NextCloudCreate]_vars

(***************************************************************************)
(* A Reconcile pass over a stored NodeClass: the pass reads the NodeClass  *)
(* with the conditions earlier passes left, sets the Ready condition on    *)
(* the object it read and writes the status back.  What the next reader    *)
(* of the NodeClass finds is what is stored.                               *)
(***************************************************************************)
\* CloudStackNodeClass.SetCondition: the first condition of the type is
\* replaced, a condition of a new type is appended.
SetCondition(conditions, condition) ==
    LET hits == {i \in 1..Len(conditions) : conditions[i].Type = condition.Type}
    IN IF hits = {} THEN Append(conditions, condition)
       ELSE [conditions EXCEPT ![Min(hits)] = condition]

\* The pass, the conditions on the object when it returns, and the
\* conditions stored: those of the object when the status write was made
\* and kept, the earlier ones otherwise.
ReconcilePass(in, conditions) ==
    LET pass == Reconcile(in)
        object == IF pass.condition = NoCondition THEN conditions
                  ELSE SetCondition(conditions, pass.condition)
    IN [pass |-> pass, before |-> conditions, object |-> object,
        stored |-> IF pass.updated /\ ~in.updateErr THEN object ELSE conditions]

InitPass ==
    /\ AllIdle
    /\ opName = "ReconcilePass"
    /\ \/ opIn \in GoneInputs
       \/ \E zone \in Zones : opIn \in LiveInputs(zone)
    /\ opDone = FALSE
    /\ opOut = <<>>

ReconcilePassCall ==
    /\ opName = "ReconcilePass"
    /\ ~opDone
    /\ \E conditions \in ConditionLists : opOut' = ReconcilePass(opIn, conditions)
    /\ opDone' = TRUE
    /\ UNCHANGED <<opName, opIn>>

NextPass == ReconcilePassCall /\ UNCHANGED idleVars

SpecPass == InitPass /\ [][NextPass]_vars

(***************************************************************************)
(* Get and Delete of the instance provider called concurrently.  Neither   *)
(* takes a lock: Get is a cache read, a backend call and a cache write,    *)
(* Delete is a Get, a destroy call and a cache delete, and the steps of    *)
(* the callers interleave.  The backend never gives an ID a second time.   *)
(***************************************************************************)
\* deleted: the IDs a Delete has returned success for; stale: the IDs a Get
\* entered after that has answered from the cache.
NoRace == [deleted |-> {}, stale |-> {}]

InitRace ==
    /\ ResolveIdle
    /\ CallIdle
    /\ JobIdle
    /\ CreateIdle
    /\ prov = "instance"
    /\ now = 0
    /\ ticks = 0
    /\ cache = [k \in InstanceKeys |-> NoEntry]
    /\ mu = 0
    /\ pc = [c \in Callers |-> "idle"]
    /\ arg = [c \in Callers |-> ""]
    /\ ret = NoReturn
    /\ ncalls = 0
    /\ log = EmptyBag
    /\ iRemote = InstanceIDs
    /\ iCache = <<>>
    /\ iLast = NoRace

\* Get, "Check cache": a hit returns, a miss goes on to the backend.
RaceGetEnter(c, id) ==
    LET key == InstanceKey(id)
    IN /\ pc[c] = "idle"
       /\ ncalls < MaxCalls
       /\ ncalls' = ncalls + 1
       /\ IF CacheFound(cache, key, now)
          THEN /\ ret' = Return("cache", key, Ok(cache[key].val))
               /\ iLast' = [iLast EXCEPT !.stale =
                                IF id \in iLast.deleted THEN @ \cup {id} ELSE @]
               /\ UNCHANGED <<pc, arg>>
          ELSE /\ pc' = [pc EXCEPT ![c] = "list"]
               /\ arg' = [arg EXCEPT ![c] = id]
               /\ UNCHANGED <<ret, iLast>>
       /\ UNCHANGED <<prov, now, ticks, cache, mu, log, iRemote, iCache>>

\* Get, ListVirtualMachines: an error and an empty answer return, a virtual
\* machine goes on to the cache write.
RaceGetList(c) ==
    LET key == InstanceKey(arg[c])
    IN /\ pc[c] = "list"
       /\ \E listErr \in BOOLEAN :
              LET f == InstanceFetch(arg[c], listErr, arg[c] \in iRemote)
              IN IF f.stored
                 THEN /\ pc' = [pc EXCEPT ![c] = "store"]
                      /\ UNCHANGED <<arg, ret>>
                 ELSE /\ pc' = [pc EXCEPT ![c] = "idle"]
                      /\ arg' = [arg EXCEPT ![c] = ""]
                      /\ ret' = Return("fetch", key, f.result)
       /\ UNCHANGED <<prov, now, ticks, cache, mu, ncalls, log, instanceVars>>

\* Get, "Cache the result" and the return.
RaceGetStore(c) ==
    LET key == InstanceKey(arg[c])
    IN /\ pc[c] = "store"
       /\ cache' = CacheSet(cache, key, Instance(arg[c]), now)
       /\ ret' = Return("fetch", key, Ok(Instance(arg[c])))
       /\ pc' = [pc EXCEPT ![c] = "idle"]
       /\ arg' = [arg EXCEPT ![c] = ""]
       /\ UNCHANGED <<prov, now, ticks, mu, ncalls, log, instanceVars>>

\* Delete, "Check if VM exists first": the Get inside Delete.  Not found
\* returns success, an error returns the error.
RaceDeleteEnter(c, id) ==
    /\ pc[c] = "idle"
    /\ ncalls < MaxCalls
    /\ ncalls' = ncalls + 1
    /\ \E listErr \in BOOLEAN :
          LET got == InstanceGet(cache, iRemote, id, now, listErr)
          IN /\ cache' = got.cache
             /\ IF got.outcome = "ok"
                THEN /\ pc' = [pc EXCEPT ![c] = "destroy"]
                     /\ arg' = [arg EXCEPT ![c] = id]
                     /\ UNCHANGED iLast
                ELSE /\ iLast' = [iLast EXCEPT !.deleted =
                                      IF got.outcome = "notfound" THEN @ \cup {id} ELSE @]
                     /\ UNCHANGED <<pc, arg>>
    /\ UNCHANGED <<prov, now, ticks, mu, ret, log, iRemote, iCache>>

\* Delete, DestroyVirtualMachine with expunge: an error returns it.
RaceDeleteDestroy(c) ==
    /\ pc[c] = "destroy"
    /\ \E destroyErr \in BOOLEAN, rejects \in BOOLEAN :
          LET destroyed == DestroyVirtualMachine(iRemote, arg[c], destroyErr, rejects)
          IN /\ iRemote' = destroyed.remote
             /\ IF destroyed.ok
                THEN /\ pc' = [pc EXCEPT ![c] = "evict"]
                     /\ UNCHANGED arg
                ELSE /\ pc' = [pc EXCEPT ![c] = "idle"]
                     /\ arg' = [arg EXCEPT ![c] = ""]
    /\ UNCHANGED <<prov, now, ticks, cache, mu, ret, ncalls, log, iCache, iLast>>

\* Delete, "Remove from cache" and the return of success.
RaceDeleteEvict(c) ==
    /\ pc[c] = "evict"
    /\ cache' = CacheDelete(cache, InstanceKey(arg[c]))
    /\ iLast' = [iLast EXCEPT !.deleted = @ \cup {arg[c]}]
    /\ pc' = [pc EXCEPT ![c] = "idle"]
    /\ arg' = [arg EXCEPT ![c] = ""]
    /\ UNCHANGED <<prov, now, ticks, mu, ret, ncalls, log, iRemote, iCache>>

NextRace ==
    /\ \/ \E c \in Callers, id \in InstanceIDs : RaceGetEnter(c, id)
       \/ \E c \in Callers : RaceGetList(c)
       \/ \E c \in Callers : RaceGetStore(c)
       \/ \E c \in Callers, id \in InstanceIDs : RaceDeleteEnter(c, id)
       \/ \E c \in Callers : RaceDeleteDestroy(c)
       \/ \E c \in Callers : RaceDeleteEvict(c)
    /\ UNCHANGED <<resolveVars, createVars, callVars, jobVars>>

SpecRace == InitRace /\ [][NextRace]_vars

(***************************************************************************)
(* The end of a Create that found its virtual machine Running (buildTags,  *)
(* createTags, convertToInstance) and a List after it.                     *)
(***************************************************************************)
\* The tags the backend holds for the new virtual machine after createTags.
RemoteTagsAfter(req, tagErr) == IF tagErr THEN EmptyTags ELSE buildTags(req)

\* in.tagErr: createTags fails; in.others: the virtual machines the backend
\* had before; in.exists: the new one is still there when List runs;
\* in.lookupErr: the IDs whose getTags fails in List.
CreateThenList(in) ==
    LET created == TagsOutcome(in.tagErr,
                               convertToInstance("i3", "Running", buildTags(in.req)))
        vms == in.others \o
               (IF in.exists
                THEN <<[ID |-> "i3", State |-> "Running",
                        Tags |-> RemoteTagsAfter(in.req, in.tagErr)]>>
                ELSE <<>>)
    IN [created |-> created, vms |-> vms,
        listed |-> InstanceList(vms, in.lookupErr, in.listErr)]

CreateThenListInputs ==
    [req : Requests, tagErr : BOOLEAN,
     others : {<<>>} \cup {<<[ID |-> "i1", State |-> "Running", Tags |-> t]>> : t \in VmTagSets},
     exists : BOOLEAN, lookupErr : SUBSET {"i1", "i3"}, listErr : BOOLEAN]

InitDiscover ==
    /\ AllIdle
    /\ opName = "CreateThenList"
    /\ opIn \in CreateThenListInputs
    /\ opDone = FALSE
    /\ opOut = <<>>

CreateThenListCall ==
    /\ opName = "CreateThenList"
    /\ ~opDone
    /\ opOut' = CreateThenList(opIn)
    /\ opDone' = TRUE
    /\ UNCHANGED <<opName, opIn>>

NextDiscover == CreateThenListCall /\ UNCHANGED idleVars

SpecDiscover == InitDiscover /\ [][NextDiscover]_vars

(***************************************************************************)
(* The instance cache over time: Get, Delete and Create of the instance   *)
(* provider while the backend changes, stops, re-tags and removes the      *)
(* virtual machines.  iRemote maps an ID to the virtual machine the        *)
(* backend lists for it, iLast carries the last call with the times of    *)
(* the earlier lookups of each ID.                                         *)
(***************************************************************************)
NoVm == [State |-> "absent", Tags |-> {}]

RemoteVms ==
    {NoVm, [State |-> "Running", Tags |-> {"a"}], [State |-> "Stopped", Tags |-> {"a"}],
     [State |-> "Running", Tags |-> {"b"}]}

\* The clock advances by less than the TTL or by more than it.
ServeSteps == {defaultCacheTTL - 5, defaultCacheTTL + 1}

\* Two short steps pass the expiration of an entry stored at the start.
ServeHorizon == 2 * (defaultCacheTTL - 5)

Served(c, outcome, instance, calls) ==
    [cache |-> c, outcome |-> outcome, instance |-> instance, calls |-> calls]

\* Get that asks the backend although the cache holds the entry.
InstanceGetOfBackend(c, vms, id, t, listErr, tagErr) ==
    IF listErr
    THEN Served(c, "error: getting instance", <<>>, <<"list">>)
    ELSE IF vms[id] = NoVm
    THEN Served(c, "notfound", <<>>, <<"list">>)
    ELSE LET instance == convertToInstance(id, vms[id].State,
                                           IF tagErr THEN {} ELSE vms[id].Tags)
         IN Served(CacheSet(c, InstanceKey(id), instance, t), "ok", instance,
                   <<"list", "tags">>)

\* Get over the virtual machines vms: the cached Instance when the cache
\* finds the key, otherwise the list call, the tag lookup (its error is
\* dropped), convertToInstance and the store.
InstanceGetOf(c, vms, id, t, listErr, tagErr) ==
    IF CacheFound(c, InstanceKey(id), t)
    THEN Served(c, "ok", c[InstanceKey(id)].val, <<>>)
    ELSE InstanceGetOfBackend(c, vms, id, t, listErr, tagErr)

NoServe == [op |-> "none", id |-> "", outcome |-> "", instance |-> <<>>, calls |-> <<>>,
            afterOk |-> FALSE, afterFetch |-> FALSE, stored |-> FALSE,
            okAt |-> [id \in InstanceIDs |-> {}],
            fetched |-> [id \in InstanceIDs |-> {}],
            n |-> 0]

InitServe ==
    /\ ResolveIdle
    /\ CallIdle
    /\ JobIdle
    /\ CacheIdle
    /\ CreateIdle
    /\ iRemote \in [InstanceIDs -> {NoVm, [State |-> "Running", Tags |-> {"a"}]}]
    /\ iCache = [k \in {InstanceKey(id) : id \in InstanceIDs} |-> NoEntry]
    /\ iLast = NoServe

\* The times of the successful Gets of id no older than the TTL.
NoOlderThanTTL(times) == \E at \in times : now <= at + defaultCacheTTL

ServeGetCall(id) ==
    /\ iLast.n < MaxCalls
    /\ \E listErr \in BOOLEAN, tagErr \in BOOLEAN :
          LET got == InstanceGetOf(iCache, iRemote, id, now, listErr, tagErr)
          IN /\ iCache' = got.cache
             /\ iLast' = [iLast EXCEPT
                     !.op = "Get", !.id = id, !.outcome = got.outcome,
                     !.instance = got.instance, !.calls = got.calls,
                     !.afterOk = NoOlderThanTTL(iLast.okAt[id]),
                     !.afterFetch = NoOlderThanTTL({f.at : f \in iLast.fetched[id]}),
                     !.stored = got.cache # iCache,
                     !.okAt[id] = IF got.outcome = "ok" THEN {now} ELSE @,
                     !.fetched[id] = IF got.outcome = "ok" /\ got.calls # <<>>
                                     THEN {[at |-> now, val |-> got.instance]} ELSE @,
                     !.n = @ + 1]
    /\ UNCHANGED iRemote

\* Delete: Get, then the destroy with expunge, then the eviction.
ServeDeleteCall(id) ==
    /\ iLast.n < MaxCalls
    /\ \E listErr \in BOOLEAN, destroyErr \in BOOLEAN :
          LET got == InstanceGetOf(iCache, iRemote, id, now, listErr, FALSE)
              destroyed == got.outcome = "ok" /\ ~destroyErr
          IN /\ iCache' = IF destroyed THEN CacheDelete(got.cache, InstanceKey(id))
                          ELSE got.cache
             /\ iRemote' = IF destroyed THEN [iRemote EXCEPT ![id] = NoVm] ELSE iRemote
             /\ iLast' = [iLast EXCEPT
                     !.op = "Delete", !.id = id,
                     !.outcome = IF got.outcome = "notfound" \/ destroyed THEN "ok"
                                 ELSE IF got.outcome # "ok"
                                 THEN "error: checking instance existence"
                                 ELSE "error: destroying instance",
                     !.instance = <<>>,
                     !.calls = IF got.outcome = "ok" THEN got.calls \o <<"destroy">>
                               ELSE got.calls,
                     !.afterOk = FALSE, !.afterFetch = FALSE,
                     !.stored = FALSE,
                     !.okAt[id] = {}, !.fetched[id] = {},
                     !.n = @ + 1]

\* Create deploys a virtual machine of an ID the backend never had, waits
\* for it and tags it; it makes no call on the cache.
ServeCreateCall(id) ==
    /\ iLast.n < MaxCalls
    /\ iRemote[id] = NoVm
    /\ ~iCache[InstanceKey(id)].set
    /\ iRemote' = [iRemote EXCEPT ![id] = [State |-> "Running", Tags |-> {"a"}]]
    /\ iLast' = [iLast EXCEPT
            !.op = "Create", !.id = id, !.outcome = "ok",
            !.instance = convertToInstance(id, "Running", {"a"}),
            !.calls = <<"deploy", "list", "tags">>,
            !.afterOk = FALSE, !.afterFetch = FALSE, !.stored = FALSE,
            !.n = @ + 1]
    /\ UNCHANGED iCache

\* The backend stops, starts, re-tags or removes a virtual machine.
RemoteChange(id) ==
    /\ iRemote[id] # NoVm
    /\ \E vm \in RemoteVms \ {iRemote[id]} : iRemote' = [iRemote EXCEPT ![id] = vm]
    /\ UNCHANGED <<iCache, iLast>>

ServeTick(d) ==
    /\ now + d <= ServeHorizon
    /\ now' = now + d
    /\ UNCHANGED <<prov, ticks, cache, mu, pc, arg, ret, ncalls, log>>

NextServe ==
    /\ \/ \E id \in InstanceIDs : ServeGetCall(id) /\ UNCHANGED cacheVars
       \/ \E id \in InstanceIDs : ServeDeleteCall(id) /\ UNCHANGED cacheVars
       \/ \E id \in InstanceIDs : ServeCreateCall(id) /\ UNCHANGED cacheVars
       \/ \E id \in InstanceIDs : RemoteChange(id) /\ UNCHANGED cacheVars
       \/ \E d \in ServeSteps : ServeTick(d) /\ UNCHANGED instanceVars
    /\ UNCHANGED <<resolveVars, createVars, callVars, jobVars>>

SpecServe == InitServe /\ [][NextServe]_vars

(***************************************************************************)
(* Properties of the selector resolution (SpecResolve).                    *)
(***************************************************************************)
ResolveDone == rPc = "done" /\ rListed.ok

\* The positions <<term, index>> of the per-term selections, in evaluation order.
Picks == UNION {{<<i, j>> : j \in 1..Len(rPerTerm[i])} : i \in 1..Len(rPerTerm)}
PickBefore(p, q) == p[1] < q[1] \/ (p[1] = q[1] /\ p[2] < q[2])
PickOf(p) == rPerTerm[p[1]][p[2]]
FirstPick(id) ==
    CHOOSE p \in Picks :
        /\ PickOf(p).ID = id
        /\ \A q \in Picks : PickOf(q).ID = id => (q = p \/ PickBefore(p, q))

\* A resource carries every tag the selector asks for.
HasAllTags(r, sel) ==
    \A k \in DOMAIN sel : k \in DOMAIN r.Tags /\ (sel[k] # "*" => r.Tags[k] = sel[k])

OnlyTags(kind, t) ==
    /\ t.ID = ""
    /\ t.Name = ""
    /\ DOMAIN t.Tags # {}
    /\ (kind = "template" => t.OSType = "")

\* C4: for every resolver kind, resolving a (non-empty) selector-term list
\* never returns success with an empty result list: an empty or non-matching
\* inventory is an error.
C4_NoEmptySuccess ==
    (rPc = "done" /\ Len(rTerms) > 0) => ~(rResult.ok /\ Len(rResult.val) = 0)

\* C5: the selection of ResolveNetworks / ResolveTemplates before the
\* readiness filter is the set union of the per-term matches, holds no ID
\* twice, and is ordered by first appearance in term order.
C5_UnionDedupFirstSeen ==
    (ResolveDone /\ rKind \in {"network", "template"}) =>
        /\ Range(rMatched) = {PickOf(p) : p \in Picks}
        /\ \A a, b \in 1..Len(rMatched) : a # b => rMatched[a].ID # rMatched[b].ID
        /\ \A a, b \in 1..Len(rMatched) :
               a < b => PickBefore(FirstPick(rMatched[a].ID), FirstPick(rMatched[b].ID))

\* Two terms select the same resource, and the selection holds two resources.
C5_Witness ==
    /\ ResolveDone
    /\ rKind \in {"network", "template"}
    /\ Len(rMatched) >= 2
    /\ \E p, q \in Picks : p[1] # q[1] /\ PickOf(p).ID = PickOf(q).ID

C7_TagMatching ==
    (ResolveDone /\ rKind \in {"network", "template"}) =>
        \A i \in 1..Len(rTerms) :
            OnlyTags(rKind, rTerms[i]) =>
                \A r \in Range(rListed.val) :
                    LET sel == rTerms[i].Tags
                        selected == r \in Range(rPerTerm[i])
                    IN /\ selected <=> HasAllTags(r, sel)
                       /\ \A k \in DOMAIN sel :
                              (DOMAIN sel = {k} /\ sel[k] = "*") =>
                                  /\ (k \in DOMAIN r.Tags /\ r.Tags[k] # "") => selected
                                  /\ k \notin DOMAIN r.Tags => ~selected

\* A wildcard term over an inventory with a resource that has the key and
\* one that lacks it.
C7_Witness ==
    /\ ResolveDone
    /\ rKind = "network"
    /\ \E i \in 1..Len(rTerms) :
           /\ OnlyTags(rKind, rTerms[i])
           /\ rTerms[i].Tags = Tag1("env", "*")
           /\ \E r \in Range(rPerTerm[i]) : r.Tags["env"] # ""
           /\ \E r \in Range(rListed.val) : "env" \notin DOMAIN r.Tags /\ r \notin Range(rPerTerm[i])

C9_OfferingTagSelection ==
    ResolveDone =>
        \A i \in 1..Len(rTerms) :
            OnlyTags(rKind, rTerms[i]) =>
                \A r \in Range(rListed.val) :
                    r \in Range(rPerTerm[i]) <=> HasAllTags(r, rTerms[i].Tags)

(***************************************************************************)
(* Properties of the cache guard of List, checked under SpecCache.         *)
(***************************************************************************)
\* The fetches of a key that reached the backend.
LogOf(key) == [e \in {x \in BagToSet(log) : x.key = key} |-> log[e]]

FetchesOf(key) == BagCardinality(LogOf(key))

NoFailureOn(key) == \A e \in BagToSet(log) : e.key = key => e.failure = "none"

\* C1: from a cold cache and while the first entry cannot have expired,
\* callers of List on one key whose backend calls all succeed cause at most
\* one fetch, and every one that has returned got the one fetched list.
C1_FetchedOnce ==
    \A key \in CacheKeys(prov) :
        (now <= defaultCacheTTL /\ NoFailureOn(key)) =>
            /\ FetchesOf(key) <= 1
            /\ (ret.via # "none" /\ ret.key = key) =>
                   /\ ret.result.ok
                   /\ FetchesOf(key) = 1
                   /\ cache[key].set
                   /\ ret.result.val = cache[key].val

\* Two network List calls raced on a cold key: one fetched, the other was
\* answered by the double check.
C1_Witness ==
    /\ prov = "network"
    /\ now = 0
    /\ ret.via = "recheck"
    /\ NoFailureOn(ret.key)
    /\ FetchesOf(ret.key) = 1
    /\ Len(ret.result.val) > 0

\* C2: the backend is contacted only for a key whose entry is absent or
\* past its TTL, and a call answered from the cache read an entry within
\* its TTL; so calls within the TTL cause no backend call, and callers
\* arriving after it cause one refetch, not one each.
C2_ServedWithinTTL ==
    /\ \A e \in BagToSet(log) : e.cold
    /\ ret.via \in {"cache", "recheck"} => ret.fresh

\* After the TTL of a fetched entry two callers arrived together: one
\* refetched, the other was answered by the double check.
C2_Witness ==
    /\ now > defaultCacheTTL
    /\ ret.via = "recheck"
    /\ ret.fresh
    /\ NoFailureOn(ret.key)
    /\ FetchesOf(ret.key) = 2

\* C3: a fetch whose backend calls all failed stores nothing and returns an
\* error.
C3_NoNegativeCaching ==
    \A e \in BagToSet(log) : e.failure = "total" => (~e.stored /\ ~e.ok)

(***************************************************************************)
(* Properties of the instance provider, checked under SpecInstance.        *)
(***************************************************************************)
\* C10: a Delete of an instance the backend does not have, with no call
\* failing in transport, returns success whatever the cache holds.
C10_DeleteAbsentSucceeds ==
    (iLast.op = "Delete" /\ iLast.absent /\ ~iLast.transport) => iLast.outcome = "ok"

\* C17: a Get that asks the backend returns NotFound exactly when the
\* backend has no instance of the ID and another error exactly when the
\* call failed, storing nothing in either case; a successful lookup leaves
\* the Instance in the cache under its ID.
C17_GetOutcomes ==
    (iLast.op = "Get" /\ ~iLast.cached) =>
        /\ iLast.outcome = "notfound" <=> (iLast.absent /\ ~iLast.transport)
        /\ iLast.outcome = "error: getting instance" <=> iLast.transport
        /\ iLast.outcome = "ok" <=> (~iLast.absent /\ ~iLast.transport)
        /\ iLast.outcome # "ok" => ~CacheFound(iCache, InstanceKey(iLast.id), now)
        /\ iLast.outcome = "ok" =>
               /\ iCache[InstanceKey(iLast.id)].set
               /\ iCache[InstanceKey(iLast.id)].val = Instance(iLast.id)

\* A Get of an absent instance returned NotFound after an earlier entry of
\* the same ID had expired.
C17_Witness ==
    /\ iLast.op = "Get"
    /\ iLast.outcome = "notfound"
    /\ iCache[InstanceKey(iLast.id)].set

(***************************************************************************)
(* Properties of the instance provider's List, checked under SpecList.     *)
(***************************************************************************)
ListDone == opName = "List" /\ opDone

\* The position of a returned instance in the backend's list.
VmPosition(id) == CHOOSE i \in 1..Len(opIn.vms) : opIn.vms[i].ID = id

\* C16: List fails only when the list call fails; it returns, in the
\* backend's order, exactly the instances whose tag fetch succeeded and
\* whose tags hold the managed-by key, with those tags.
C16_ListManaged ==
    ListDone =>
        /\ opOut.ok <=> ~opIn.listErr
        /\ opOut.ok =>
               /\ \A i \in 1..Len(opIn.vms) :
                      (\E j \in 1..Len(opOut.val) : opOut.val[j].ID = opIn.vms[i].ID)
                          <=> (/\ opIn.vms[i].ID \notin opIn.tagErr
                               /\ ManagedByTagKey \in DOMAIN opIn.vms[i].Tags)
               /\ \A j \in 1..Len(opOut.val) :
                      /\ \E i \in 1..Len(opIn.vms) : opIn.vms[i].ID = opOut.val[j].ID
                      /\ opOut.val[j].Tags = opIn.vms[VmPosition(opOut.val[j].ID)].Tags
               /\ \A j, k \in 1..Len(opOut.val) :
                      j < k => VmPosition(opOut.val[j].ID) < VmPosition(opOut.val[k].ID)

\* A managed instance whose tag fetch failed is skipped, an unmanaged one is
\* left out, and the List succeeded.
C16_Witness ==
    /\ ListDone
    /\ opOut.ok
    /\ Len(opOut.val) < Len(opIn.vms)
    /\ \E i \in 1..Len(opIn.vms) :
           opIn.vms[i].ID \in opIn.tagErr /\ ManagedByTagKey \in DOMAIN opIn.vms[i].Tags
    /\ \E i \in 1..Len(opIn.vms) :
           opIn.vms[i].ID \notin opIn.tagErr /\ ManagedByTagKey \notin DOMAIN opIn.vms[i].Tags

(***************************************************************************)
(* Properties of the NodeClass controller, checked under SpecReconcile.    *)
(***************************************************************************)
\* Reconcile has read a live NodeClass and returned.
ReconcileRan == opName = "Reconcile" /\ opDone /\ opIn.read = "ok"

\* The first listed zone of the NodeClass's name is disabled.
ZoneDisabled ==
    /\ opIn.zones.ok
    /\ \E i \in 1..Len(opIn.zones.val) :
           /\ opIn.zones.val[i].Name = opIn.zone
           /\ opIn.zones.val[i].AllocationState = "Disabled"

\* C18: with the NodeClass's zone listed as Disabled, Reconcile sets
\* Ready=False with reason ZoneValidationFailed and resolves neither
\* networks nor templates.
C18_DisabledZoneFails ==
    (ReconcileRan /\ ZoneDisabled) =>
        /\ opOut.condition = ReadyFalse("ZoneValidationFailed")
        /\ opOut.ran = {"zone"}

ZoneLookupFails ==
    \/ ~opIn.zones.ok
    \/ \A i \in 1..Len(opIn.zones.val) : opIn.zones.val[i].Name # opIn.zone

NetworkResolutionFails == ~ResolveNetworks(opIn.netListed, opIn.netTerms, opIn.zone).ok

TemplateResolutionFails == ~ResolveTemplates(opIn.tplListed, opIn.tplTerms, opIn.zone).ok

\* The stage that fails first, in the order zone, network, template.
FirstFailure ==
    IF ZoneLookupFails THEN "zone"
    ELSE IF NetworkResolutionFails THEN "network"
    ELSE IF TemplateResolutionFails THEN "template"
    ELSE "none"

\* C19: when a stage fails, the NodeClass is given Ready=False with the
\* reason of the first failing stage, the status write is attempted, no
\* later stage runs, and Reconcile returns a requeue delay of one to five
\* minutes and no error, whether or not the status write is kept.
C19_FirstFailingStage ==
    (ReconcileRan /\ FirstFailure # "none") =>
        /\ opOut.condition =
               ReadyFalse(CASE FirstFailure = "zone" -> "ZoneValidationFailed"
                            [] FirstFailure = "network" -> "NetworkResolutionFailed"
                            [] FirstFailure = "template" -> "TemplateResolutionFailed")
        /\ opOut.ran =
               CASE FirstFailure = "zone" -> {"zone"}
                 [] FirstFailure = "network" -> {"zone", "network"}
                 [] FirstFailure = "template" -> {"zone", "network", "template"}
        /\ opOut.updated
        /\ ~opIn.updateErr => opOut.stored = opOut.condition
        /\ opOut.RequeueAfter \in 1..RequeueZoneFailure
        /\ opOut.err = ""

\* The zone is found, the networks resolve and the templates do not, while
\* the status write fails.
C19_Witness ==
    /\ ReconcileRan
    /\ FirstFailure = "template"
    /\ opIn.updateErr
    /\ opOut.condition = ReadyFalse("TemplateResolutionFailed")
    /\ opOut.err = ""

(***************************************************************************)
(* Properties of the NodeClass hash, checked under SpecHash.               *)
(***************************************************************************)
\* How many times an element occurs in a list.
Occurrences(list, e) == Cardinality({i \in 1..Len(list) : list[i] = e})

SameElements(l1, l2) ==
    /\ Len(l1) = Len(l2)
    /\ \A i \in 1..Len(l1) : Occurrences(l1, l1[i]) = Occurrences(l2, l1[i])

\* The two specs differ at most in the order of the elements of their
\* selector-term lists.
OnlyReordered ==
    /\ opIn.a.Zone = opIn.b.Zone
    /\ opIn.a.Tags = opIn.b.Tags
    /\ SameElements(opIn.a.NetworkSelectorTerms, opIn.b.NetworkSelectorTerms)
    /\ SameElements(opIn.a.ServiceOfferingSelectorTerms, opIn.b.ServiceOfferingSelectorTerms)
    /\ SameElements(opIn.a.TemplateSelectorTerms, opIn.b.TemplateSelectorTerms)

\* C20: two specs that differ only in the order of the elements within
\* their selector-term lists have the same Hash.
C20_HashIgnoresTermOrder ==
    (opName = "Hash" /\ opDone /\ OnlyReordered) => opOut.a = opOut.b

\* Two different specs, the network terms and the template terms of one in
\* another order than in the other, were hashed to the same value.
C20_Witness ==
    /\ opName = "Hash"
    /\ opDone
    /\ OnlyReordered
    /\ opIn.a.NetworkSelectorTerms # opIn.b.NetworkSelectorTerms
    /\ opIn.a.TemplateSelectorTerms # opIn.b.TemplateSelectorTerms
    /\ Len(opIn.a.NetworkSelectorTerms) = 3
    /\ opOut.a = opOut.b

(***************************************************************************)
(* Properties of Create, checked under SpecCreate.                         *)
(***************************************************************************)
DeployAccepted == cVm # "none"

C12_NoCompensation ==
    (cPc = "done" /\ DeployAccepted /\ ~cOut.ok) => cCalls \subseteq {"deploy", "list"}

\* Create failed on a poll that failed, with the instance still starting.
C12_Witness ==
    /\ cPc = "done"
    /\ cVm = "Starting"
    /\ cOut.err = QueryErr
    /\ cCalls = {"deploy", "list"}

C14_TagFailureIgnored ==
    (cPc = "done" /\ cHist.tagErr) =>
        /\ cOut.ok
        /\ cOut.instance = convertToInstance("vm1", "Running", cHist.sent)

C14_Witness ==
    /\ cPc = "done"
    /\ cHist.tagErr
    /\ cHist.sawRunning
    /\ cOut.ok

\* C15: the tags Create sends hold managed-by=karpenter, the cluster tag,
\* the nodeclass and nodeclaim names, the nodepool tag exactly when the
\* NodeClaim has the NodePool label, and every user-defined tag.
C15_OwnershipTags ==
    "tags" \in cCalls =>
        /\ {ManagedByTagKey, NodeClassTagKey, NodeClaimTagKey,
            ClusterNameTagKey \o "/" \o clusterName} \subseteq DOMAIN cHist.sent
        /\ cHist.sent[ManagedByTagKey] = "karpenter"
        /\ cHist.sent[ClusterNameTagKey \o "/" \o clusterName] = "owned"
        /\ cHist.sent[NodeClassTagKey] = cReq.nodeClass
        /\ cHist.sent[NodeClaimTagKey] = cReq.nodeClaim
        /\ NodePoolTagKey \in DOMAIN cHist.sent <=> NodePoolLabelKey \in DOMAIN cReq.labels
        /\ \A k \in DOMAIN cReq.userTags :
               k \in DOMAIN cHist.sent /\ cHist.sent[k] = cReq.userTags[k]

(***************************************************************************)
(* Properties of IsDrifted, checked under SpecDrift.                       *)
(***************************************************************************)
\* IsDrifted returned for a NodeClaim whose NodePool and NodeClass resolved.
DriftResolved ==
    /\ opName = "IsDrifted"
    /\ opDone
    /\ NodePoolLabelKey \in DOMAIN opIn.labels
    /\ opIn.pool = "ok"
    /\ opIn.ref
    /\ opIn.class = "ok"

\* The hash recorded on the NodeClaim, empty when there is none.
RecordedHash ==
    IF AnnotationNodeClassHash \in DOMAIN opIn.annotations
    THEN opIn.annotations[AnnotationNodeClassHash]
    ELSE ""

\* C21: with the NodePool and the NodeClass resolved, IsDrifted reports
\* NodeClassDrifted exactly when the recorded hash differs from the
\* NodeClass's hash, reports no drift when they are equal, and no error.
C21_DriftIffHashDiffers ==
    DriftResolved =>
        /\ opOut.reason = "NodeClassDrifted" <=> RecordedHash # Hash(opIn.spec)
        /\ RecordedHash = Hash(opIn.spec) => opOut.reason = ""
        /\ opOut.err = ""

\* A NodeClaim with no recorded hash was reported as drifted.
C21_Witness ==
    /\ DriftResolved
    /\ AnnotationNodeClassHash \notin DOMAIN opIn.annotations
    /\ opOut.reason = "NodeClassDrifted"

(***************************************************************************)
(* Properties of the provider IDs, checked under SpecProviderID.           *)
(***************************************************************************)
HasSlash(s) == \E i \in 1..Len(s) : s[i] = "/"

\* t is what follows the last "/" of s, or all of s when it has none.
IsLastSegment(s, t) ==
    /\ Len(t) <= Len(s)
    /\ t = SubSeq(s, Len(s) - Len(t) + 1, Len(s))
    /\ ~HasSlash(t)
    /\ Len(t) < Len(s) => s[Len(s) - Len(t)] = "/"

\* C22: an instance ID without "/" comes back from ParseProviderID of its
\* formatted provider ID, with no error, whatever the zone; a parse takes
\* the last "/"-delimited segment; the empty provider ID is an error.
C22_ProviderIDRoundTrip ==
    /\ (opName = "FormatProviderID" /\ opDone /\ ~HasSlash(opIn.instanceID)) =>
           opOut = Parsed(opIn.instanceID, "")
    /\ (opName = "ParseProviderID" /\ opDone) =>
           /\ opOut.err # "" <=> opIn.providerID = <<>>
           /\ opIn.providerID # <<>> => IsLastSegment(opIn.providerID, opOut.id)

\* An instance ID came back from a provider ID whose zone holds a "/".
C22_Witness ==
    /\ opName = "FormatProviderID"
    /\ opDone
    /\ HasSlash(opIn.zone)
    /\ Len(opIn.instanceID) = MaxStr
    /\ opOut = Parsed(opIn.instanceID, "")

(***************************************************************************)
(* The order of the sub-operations of Create, checked under SpecCreate.    *)
(***************************************************************************)
\* The place of the first sub-operation, up to the deploy, whose backend
\* fails in this call; 0 when none does.
FirstFault ==
    IF cHist.faults = {} THEN 0
    ELSE CHOOSE i \in 1..6 :
             /\ CreateOrder[i] \in cHist.faults
             /\ \A j \in 1..(i - 1) : CreateOrder[j] \notin cHist.faults

CreateReturned == cPc = "done"

\* The sub-operations run in the order of the code, each at most once
\* (successive polls counting as one), and a Create that returned stopped at
\* its first failing sub-operation.
StepsInOrder ==
    /\ cHist.steps = SubSeq(CreateOrder, 1, Len(cHist.steps))
    /\ CreateReturned =>
           /\ FirstFault > 0 => cHist.steps = SubSeq(CreateOrder, 1, FirstFault)
           /\ (FirstFault = 0 /\ ~cOut.ok) => Len(cHist.steps) \in {6, 7}
           /\ cOut.ok => cHist.steps = CreateOrder

\* C23 (as amended): the sub-operations of one Create run in the order
\* instance type, zone, network, template, service offering, deploy, poll,
\* tag; a failure at any of them before the tagging returns an error and no
\* later one runs, so the deploy is issued at most once and only after all
\* that precedes it succeeded; a failed tagging is the last step and
\* returns no error.
C23_StepsInOrder ==
    /\ StepsInOrder
    /\ (CreateReturned /\ (FirstFault > 0 \/ cHist.pollErr)) => ~cOut.ok

\* C23 (as stated): the same, and a failure at any of the sub-operations,
\* the tagging included, returns an error.
C23_EveryFailureReturnsError ==
    /\ StepsInOrder
    /\ (CreateReturned /\ (FirstFault > 0 \/ cHist.pollErr \/ cHist.tagErr)) => ~cOut.ok

\* Create returned at the template resolution, the deploy, which would
\* have failed too, not issued.
C23_Witness ==
    /\ CreateReturned
    /\ cHist.faults = {"template", "deploy"}
    /\ cHist.steps = <<"instanceType", "zone", "network", "template">>
    /\ cOut.err = "resolving templates"

(***************************************************************************)
(* The guard of the instance cache, checked under SpecGet.                 *)
(***************************************************************************)
\* C24: a caller that is about to write a cache holds its provider's
\* mutex, and while the first entry of a key cannot have expired the
\* callers of that key whose backend calls all succeed cause one backend
\* call at most; here for the instance-by-ID cache.
C24_InstanceCacheGuarded ==
    /\ \A c \in Callers : pc[c] = "fetch" => mu = c
    /\ \A key \in InstanceKeys :
           (now <= defaultCacheTTL /\ NoFailureOn(key)) => FetchesOf(key) <= 1

(***************************************************************************)
(* Delete of the instance provider, checked under SpecInstance.            *)
(***************************************************************************)
\* C25: Delete calls Get first; when Get found the instance Delete issues
\* one destroy call, for that ID and with expunge, and evicts the ID only
\* after the destroy succeeded; after a Delete that returned success Get
\* finds no entry of the ID in the cache; when Get failed otherwise than by
\* NotFound, Delete returns an error and issues no destroy call.
C25_DeleteDestroysThenEvicts ==
    iLast.op = "Delete" =>
        /\ iLast.got = "ok" <=> iLast.destroys = <<[id |-> iLast.id, expunge |-> TRUE]>>
        /\ iLast.got # "ok" => iLast.destroys = <<>>
        /\ iLast.outcome = "ok" => ~CacheFound(iCache, InstanceKey(iLast.id), now)
        /\ iLast.got = "notfound" => iLast.outcome = "ok"
        /\ iLast.got = "error: getting instance" =>
               iLast.outcome = "error: checking instance existence"
        /\ (iLast.cached /\ iLast.outcome = "ok") => ~iCache[InstanceKey(iLast.id)].set
        /\ (iLast.cached /\ iLast.outcome # "ok") => iCache[InstanceKey(iLast.id)].set

\* An instance that Get answered from the cache was destroyed and evicted.
C25_Witness ==
    /\ iLast.op = "Delete"
    /\ iLast.cached
    /\ iLast.outcome = "ok"
    /\ Len(iLast.destroys) = 1
    /\ ~iCache[InstanceKey(iLast.id)].set

(***************************************************************************)
(* Termination of the ready wait of Create, under FairSpecCreate.          *)
(***************************************************************************)
Waiting == cPc \in {"select", "poll"}

JobReturned == job.pc = "done"

LastPolled == IF job.polled = <<>> THEN -1 ELSE job.polled[Len(job.polled)]

OwnZone(key) ==
    prov = "offering" \/ \A i \in 1..Len(cache[key].val) : cache[key].val[i].Zone = key[2]

\* C28: a List or Resolve call that finds the list in the cache leaves every
\* entry as it is, contents and order; an entry changes only when a call
\* for the zone of its key misses and stores the list it fetched, whole;
\* a call for one zone is answered from the entry of its own key and no
\* entry holds a resource of another zone.
C28_StoredListsFrame ==
    [][/\ \A key \in CacheKeys(prov) :
             cache'[key] # cache[key] =>
                 /\ ret'.via = "fetch"
                 /\ ret'.key = key
                 /\ ~CacheFound(cache, key, now)
                 /\ cache'[key] = [set |-> TRUE, val |-> ret'.listed.val,
                                   exp |-> now + defaultCacheTTL]
       /\ (ret' # ret /\ ret'.via = "cache") =>
             /\ cache' = cache
             /\ ret'.listed = Ok(cache[CacheKey(prov, ret'.zone)].val)
       /\ \A key \in CacheKeys(prov) : OwnZone(key)']_vars

\* A Resolve call answered from the cache selected one resource of a stored
\* list of two, while the other zone had a list stored as well.
C28_Witness ==
    /\ ret.op = "Resolve"
    /\ ret.via = "cache"
    /\ ret.result.ok
    /\ Len(ret.result.val) = 1
    /\ Len(cache[ret.key].val) = 2
    /\ \A key \in CacheKeys(prov) : cache[key].set

(***************************************************************************)
(* Properties of a List with failed tag lookups, checked under             *)
(* SpecTagLookup.                                                          *)
(***************************************************************************)
TagLookupDone == opName = "ListThenResolve" /\ opDone

\* The listed resources whose tag lookup failed.
Untagged == {i \in 1..Len(opOut.listed.val) : opOut.listed.val[i].ID \in opIn.tagErr}

SelectedBy(i, t) == opOut.listed.val[i] \in Range(opOut.perTerm[t])

IDFound(t) == \E j \in 1..Len(opOut.listed.val) : opOut.listed.val[j].ID = opIn.terms[t].ID

NameFound(t) ==
    \E j \in 1..Len(opOut.listed.val) : opOut.listed.val[j].Name = opIn.terms[t].Name

\* The term selects the resource by its ID or, no ID of the term being
\* found, by its Name.
ByIDOrName(i, t) ==
    \/ opIn.terms[t].ID = opOut.listed.val[i].ID
    \/ ~IDFound(t) /\ opIn.terms[t].Name = opOut.listed.val[i].Name

\* The term reaches its Tags (or OSType) branch: neither its ID nor its Name
\* is found in the list.
PastIDAndName(t) ==
    /\ opIn.terms[t].ID = "" \/ ~IDFound(t)
    /\ opIn.terms[t].Name = "" \/ ~NameFound(t)

C30_ZeroHashesAsAbsent ==
    (opName = "HashAbsentAndZero" /\ opDone) =>
        /\ opOut.a = opOut.b
        /\ ~opOut.drifted

(***************************************************************************)
(* Properties of IsDrifted when there is nothing to compare, checked under *)
(* SpecDrift.                                                              *)
(***************************************************************************)
IsDriftedReturned == opName = "IsDrifted" /\ opDone

HasPoolLabel == NodePoolLabelKey \in DOMAIN opIn.labels

\* The reads IsDrifted gets to, in their order, end before the comparison.
CannotCompare ==
    \/ ~HasPoolLabel
    \/ HasPoolLabel /\ opIn.pool = "notfound"
    \/ HasPoolLabel /\ opIn.pool = "ok" /\ ~opIn.ref
    \/ HasPoolLabel /\ opIn.pool = "ok" /\ opIn.ref /\ opIn.class \in {"notfound", "deleting"}

\* C38: IsDrifted reports no drift and no error when the NodeClaim has no
\* NodePool label, when the NodePool is not found or names no NodeClass, and
\* when the NodeClass is not found or is being deleted.
C38_NoDriftWhenNothingToCompare ==
    (IsDriftedReturned /\ CannotCompare) => opOut = Drift("", "")

\* IsDrifted returned for a NodeClaim whose recorded hash is not the hash of
\* the NodeClass, while the NodeClass was being deleted.
C38_Witness ==
    /\ IsDriftedReturned
    /\ HasPoolLabel /\ opIn.pool = "ok" /\ opIn.ref /\ opIn.class = "deleting"
    /\ AnnotationNodeClassHash \in DOMAIN opIn.annotations
    /\ opIn.annotations[AnnotationNodeClassHash] # Hash(opIn.spec)
    /\ opOut = Drift("", "")

(***************************************************************************)
(* Properties of CloudProvider.Create, checked under SpecCloudCreate.      *)
(***************************************************************************)
CloudCreateReturned == opName = "CloudProvider.Create" /\ opDone

\* The NodeClass exists, is not being deleted and has Ready = True.
NodeClassUsable ==
    /\ opIn.class = "ok"
    /\ \E i \in 1..Len(opIn.conditions) :
          opIn.conditions[i] = StatusCondition("Ready", "True")

InstanceProviderCalled == "instanceProvider.Create" \in Range(opOut.calls)

\* C31: CloudProvider.Create calls the instance provider only when the
\* NodeClass exists, is not being deleted and has its Ready condition True;
\* in every other case it returns an error and no NodeClaim, without the
\* call.
C31_DeployOnlyWhenReady ==
    CloudCreateReturned =>
        /\ InstanceProviderCalled => NodeClassUsable
        /\ ~NodeClassUsable =>
               /\ opOut.err # ""
               /\ opOut.claim = <<>>
               /\ ~InstanceProviderCalled

\* Create called the instance provider for a NodeClass whose Ready condition
\* stands after another condition.
C31_Witness ==
    /\ CloudCreateReturned
    /\ InstanceProviderCalled
    /\ opOut.err = ""
    /\ Len(opIn.conditions) = 2

CloudCreateSucceeded == CloudCreateReturned /\ opOut.err = ""

DriftChecked == CloudCreateSucceeded /\ opOut.drift # <<>>

\* IsDrifted gets as far as the comparison of the hashes.
DriftCompared ==
    /\ NodePoolLabelKey \in DOMAIN opOut.drift[1].in.labels
    /\ opOut.drift[1].in.pool = "ok"
    /\ opOut.drift[1].in.ref
    /\ opOut.drift[1].in.class = "ok"

HashAltered == Hash(opOut.drift[1].in.spec) # Hash(opIn.spec)

\* C37: the NodeClaim returned by CloudProvider.Create carries the hash of
\* the NodeClass at creation time and the hash version "v1"; IsDrifted on
\* that NodeClaim reports no drift while the hash of the NodeClass is what
\* it was, and, when the NodeClaim has its NodePool label and the NodePool
\* and the NodeClass resolve, it reports NodeClassDrifted after a change of
\* the spec that alters the hash.
C37_CreatedClaimHash ==
    /\ CloudCreateSucceeded =>
           /\ MapGet(opOut.claim[1].annotations, AnnotationNodeClassHash) = Hash(opIn.spec)
           /\ MapGet(opOut.claim[1].annotations, AnnotationNodeClassHashVersion) = "v1"
    /\ DriftChecked =>
           /\ ~HashAltered => opOut.drift[1].out.reason = ""
           /\ (HashAltered /\ DriftCompared) =>
                  opOut.drift[1].out = Drift("NodeClassDrifted", "")

\* C37 as stated: IsDrifted on the returned NodeClaim reports
\* NodeClassDrifted after any spec change that alters the hash.
C37_DriftAfterAnyChange ==
    (DriftChecked /\ HashAltered) => opOut.drift[1].out.reason = "NodeClassDrifted"

\* IsDrifted reported NodeClassDrifted on a NodeClaim that Create returned,
\* after the spec of the NodeClass was changed.
C37_Witness ==
    /\ DriftChecked
    /\ opOut.drift[1].in.spec # opIn.spec
    /\ opOut.drift[1].out = Drift("NodeClassDrifted", "")

(***************************************************************************)
(* Properties of a Reconcile pass over the stored NodeClass, checked under *)
(* SpecPass.                                                               *)
(***************************************************************************)
PassRan == opName = "ReconcilePass" /\ opDone /\ opIn.read = "ok"

ReadyIn(conditions) == {i \in 1..Len(conditions) : conditions[i].Type = "Ready"}

ReadyTrueIn(conditions) ==
    \E i \in ReadyIn(conditions) : conditions[i].Status = "True"

\* The object the pass worked on: Ready is True exactly when the three
\* stages succeeded, and there is one Ready condition.
PassObjectReady ==
    PassRan =>
        /\ ReadyTrueIn(opOut.object) <=> FirstFailure = "none"
        /\ Cardinality(ReadyIn(opOut.object)) = 1
        /\ ~opIn.updateErr => opOut.stored = opOut.object

\* C32: after a pass over a NodeClass that is not being deleted, the Ready
\* condition of the NodeClass is True if and only if zone lookup, network
\* resolution and template resolution all succeeded in that pass; a
\* Ready=True left by an earlier pass does not survive a pass in which one
\* of them failed; the NodeClass holds at most one Ready condition.
C32_ReadyIffPassSucceeded ==
    PassRan =>
        /\ ReadyTrueIn(opOut.stored) <=> FirstFailure = "none"
        /\ (ReadyTrueIn(opOut.before) /\ FirstFailure # "none") => ~ReadyTrueIn(opOut.stored)
        /\ Cardinality(ReadyIn(opOut.stored)) <= 1

(***************************************************************************)
(* Properties of Get and Delete run concurrently, checked under SpecRace.  *)
(***************************************************************************)
\* C33: once Delete(id) has returned success, the instance cache holds no
\* entry for id, and no Get(id) entered after that is answered from the
\* cache, Get calls running concurrently with the Delete included.
C33_NoEntryAfterDelete ==
    \A id \in iLast.deleted :
        /\ ~cache[InstanceKey(id)].set
        /\ id \notin iLast.stale

(***************************************************************************)
(* Properties of a List after a Create, checked under SpecDiscover.        *)
(***************************************************************************)
\* C34: the instance a successful Create returned is in the result of a
\* later List, as long as the instance still exists remotely and its tag
\* lookup succeeds.
C34_CreatedIsListed ==
    (/\ opName = "CreateThenList" /\ opDone
     /\ opOut.created.ok
     /\ opIn.exists
     /\ opOut.created.instance.ID \notin opIn.lookupErr
     /\ ~opIn.listErr)
        => /\ opOut.listed.ok
           /\ \E j \in 1..Len(opOut.listed.val) :
                  opOut.listed.val[j].ID = opOut.created.instance.ID

(***************************************************************************)
(* The polls of the ready-wait, checked under SpecCreate.                  *)
(***************************************************************************)
\* A step in which the answer of one poll is handled.
PollAnswered == cPc = "poll" /\ cPc' # "poll"

\* The wait ended without the instance being seen Running.
WaitGaveUp == cPc = "done" /\ "list" \in cCalls /\ ~cOut.ok

\* C35: a poll whose list call fails or finds no instance ends Create with
\* an error in that very step; a poll that finds the instance in a state
\* other than Running, Error and Stopped included, goes back to the select
\* and returns nothing; the wait ends only on Running, on a failed poll,
\* on the deadline or on cancellation.
C35_PollOutcomes ==
    [][/\ PollAnswered =>
            /\ cPc' = "done" =>
                   /\ ~cOut'.ok
                   /\ cOut'.err \in {QueryErr, NotFoundErr}
                   /\ cCalls' = cCalls
            /\ cVm = "absent" => cPc' = "done"
            /\ cVm \in NotRunningStates =>
                   /\ cPc' \in {"select", "done"}
                   /\ cPc' = "done" => cOut'.err = QueryErr
                   /\ cPc' = "select" => cOut' = cOut /\ cVm \in cHist'.seen
            /\ cPc' = "tags" => cVm = "Running"
       /\ WaitGaveUp' =>
            /\ cOut'.err \in {QueryErr, NotFoundErr, TimeoutErr, CancelledErr}
            /\ cOut'.err = CancelledErr => cCancelled'
            /\ cOut'.err = TimeoutErr => cElapsed' >= WaitTimeout
            /\ cOut'.err = NotFoundErr => cVm' = "absent"]_vars

\* Polls found the instance in Error and in Stopped states, the wait went
\* on, and Create returned the instance once a later poll found it Running.
C35_Witness ==
    /\ cPc = "done"
    /\ cOut.ok
    /\ cHist.seen \cap {"Error", "Stopped"} # {}
    /\ "Running" \in cHist.seen

(***************************************************************************)
(* The instance cache over time, checked under SpecServe.                  *)
(***************************************************************************)
ServedFromCache ==
    /\ iLast.outcome = "ok"
    /\ iLast.calls = <<>>
    /\ ~iLast.stored

\* C36: a Get of an ID made no later than the TTL after the Get that
\* fetched the ID from the backend, with no Delete of the ID in between,
\* returns the Instance that fetch stored and calls the backend for
\* nothing, whatever the backend lists for the ID by then; Create stores
\* nothing in the cache, which holds no entry of the created ID.
C36_ServedWithinTTLOfFetch ==
    /\ (iLast.op = "Get" /\ iLast.afterFetch) =>
           /\ ServedFromCache
           /\ \A f \in iLast.fetched[iLast.id] : iLast.instance = f.val
    /\ iLast.op = "Create" =>
           /\ ~iLast.stored
           /\ ~CacheFound(iCache, InstanceKey(iLast.id), now)

\* C36 as stated: a Get of an ID made no later than the TTL after any
\* earlier successful Get of the ID, with no Delete of the ID in between,
\* is answered from the cache without a backend call.
C36_ServedWithinTTLOfAnyGet ==
    (iLast.op = "Get" /\ iLast.afterOk) => ServedFromCache

\* A Get answered from the cache returned an Instance that the backend no
\* longer lists as it is: removed, stopped or re-tagged.
C36_Witness ==
    /\ iLast.op = "Get"
    /\ iLast.afterFetch
    /\ iLast.calls = <<>>
    /\ iRemote[iLast.id] = NoVm
    /\ iLast.instance.State = "Running"

(***************************************************************************)
(* Selector terms that select by nothing, checked under SpecResolve.       *)
(***************************************************************************)
\* No ID, no Name, no tag and, for a template term, no OSType.
IsEmptyTerm(term) ==
    /\ term.ID = ""
    /\ term.Name = ""
    /\ DOMAIN term.Tags = {}
    /\ "OSType" \in DOMAIN term => term.OSType = ""

SelectorResolved == rPc = "done" /\ rKind \in {"network", "template"} /\ rListed.ok

\* C39: in ResolveNetworks and ResolveTemplates a term that sets no ID, no
\* Name, no tag and no OSType selects nothing, the selection is the one of
\* the list without such terms, and a list of such terms only fails with
\* the no-match error.
C39_EmptyTermSelectsNothing ==
    SelectorResolved =>
        /\ \A i \in 1..Len(rTerms) : IsEmptyTerm(rTerms[i]) => rPerTerm[i] = <<>>
        /\ rMatched = Matched(rKind, rListed.val,
                              SelectSeq(rTerms, LAMBDA term : ~IsEmptyTerm(term)))
        /\ (\A i \in 1..Len(rTerms) : IsEmptyTerm(rTerms[i])) =>
               /\ ~rResult.ok
               /\ rResult.val = <<>>
               /\ rResult.err = IF rKind = "network"
                                THEN "no networks matched the selector terms in zone"
                                ELSE "no templates matched the selector terms in zone"

\* ResolveTemplates failed on two empty terms although the inventory lists
\* a ready template.
C39_Witness ==
    /\ SelectorResolved
    /\ rKind = "template"
    /\ Len(rTerms) > 1
    /\ \A i \in 1..Len(rTerms) : IsEmptyTerm(rTerms[i])
    /\ \E i \in 1..Len(rListed.val) : TemplateReady(rListed.val[i])
    /\ ~rResult.ok

=============================================================================
